---- MODULE Spec2Model ----
(***************************************************************************)
(* Grid aggregation engine of the police heatmap server (src/src/grid.js). *)
(*                                                                         *)
(* Units.  A coordinate is held in micro-degrees (MicroPerDegree units per *)
(* degree), so that scaling to precision 5 still truncates one decimal     *)
(* digit; coord * 10^precision is then the quotient of the micro-degrees   *)
(* by 10^(6 - precision).  The arithmetic is exact, where the program's is *)
(* IEEE double.  A timestamp is held in half-days, so DAY_MS is 2.         *)
(* ln(1+n) is held in millionths.  JavaScript values that are not plain    *)
(* finite numbers (null, NaN, a string, +/-Infinity) are tagged records.   *)
(***************************************************************************)
EXTENDS Integers, Sequences, FiniteSets, TLC

\* ------------------------------------------------------------------ bounds
MaxAlerts == 4
MaxFaults == 1
MaxElapsed == 2                  \* minutes the scheduler's clock runs

\* ------------------------------------------------------- JavaScript values
Num(v) == [kind |-> "number", val |-> v]
Null == [kind |-> "null", val |-> 0]
NaN == [kind |-> "NaN", val |-> 0]
Str == [kind |-> "string", val |-> 0]
PosInf == [kind |-> "Infinity", val |-> 1]
NegInf == [kind |-> "Infinity", val |-> -1]

IsFiniteNumber(x) == x.kind = "number"

\* Math.trunc(n / d) for an integer n and d > 0
MathTrunc(n, d) == IF n >= 0 THEN n \div d ELSE -((-n) \div d)

\* Math.round(n / d): the nearest integer, a half rounding up
MathRound(n, d) ==
  IF d > 0 THEN (2 * n + d) \div (2 * d) ELSE (-(2 * n) - d) \div (-(2 * d))

\* ------------------------------------------------------------- constants
PRECISION == [MAX |-> 5, MIN |-> 0]
DAY_MS == 2
MicroPerDegree == 10 ^ 6

Levels == PRECISION.MIN .. PRECISION.MAX

TIME_WINDOWS ==
  << [id |-> 0, daysAgoStart |-> 0, daysAgoEnd |-> 7],
     [id |-> 1, daysAgoStart |-> 7, daysAgoEnd |-> 14],
     [id |-> 2, daysAgoStart |-> 14, daysAgoEnd |-> 30],
     [id |-> 3, daysAgoStart |-> 30, daysAgoEnd |-> 90] >>

\* 0.00001, 0.000025, 0.00005 and 0.0001 degrees, in micro-degrees
DIVERSITY_RADII == <<10, 25, 50, 100>>

\* the ingestion bounding box of the configuration, in micro-degrees
WAZE_AREA_TOP == 30000
WAZE_AREA_BOTTOM == -10000
WAZE_AREA_LEFT == -20000
WAZE_AREA_RIGHT == 20000

\* Math.log1p(n) in millionths, for the counts a store of the model can hold
Math_log1p(n) == << 693147, 1098612, 1386294, 1609438, 1791759, 1945910 >>[n]

\* ------------------------------------------------------------- JS Map
MapGet(m, k, default) == IF k \in DOMAIN m THEN m[k] ELSE default
MapSet(m, k, v) == [x \in DOMAIN m \cup {k} |-> IF x = k THEN v ELSE m[x]]
EmptyMap == <<>>

Max2(a, b) == IF a >= b THEN a ELSE b
SetMin(S) == CHOOSE v \in S : \A w \in S : v <= w
SetMax(S) == CHOOSE v \in S : \A w \in S : v >= w

\* `${lonScaled}_${latScaled}`: the two integers (or Infinity) joined by "_";
\* neither part holds a "_", so key.split("_") and Number() give both back.
CellKey(lonScaled, latScaled) == <<lonScaled, latScaled>>
KeyLon(key) == key[1]
KeyLat(key) == key[2]


\* ---------------------------------------------------------------- helpers
scaleCoordinate_floor(coord, precision) ==
  IF coord.kind \in {"null", "NaN", "string"} \/ (coord.kind = "number" /\ coord.val = 0)
    THEN Null
    ELSE IF coord.kind = "Infinity" THEN coord
    ELSE Num(coord.val \div (MicroPerDegree \div 10 ^ precision))

\* coord * 10 ** precision is a product of doubles.  Of the coordinates of
\* this model (in micro-degrees, either sign) these are the ones whose product
\* comes out just below the whole number the decimals give:
\* 0.0029 * 10 ** 4 is 28.999999999999996, 0.0045 * 10 ** 5 is 449.99999999999994
ProductFallsShort == {<<2900, 4>>, <<4500, 5>>}

\* the product, as micro-degrees to divide by 10^(6 - precision)
DoubleProduct(val, precision) ==
  IF <<(IF val < 0 THEN -val ELSE val), precision>> \in ProductFallsShort
    THEN (IF val < 0 THEN val + 1 ELSE val - 1)
    ELSE val

\* !coord is true of null, NaN and 0; typeof rejects a string; what is left
\* is a non-zero number, +/-Infinity included, and Infinity * 10^p truncates
\* to itself.
scaleCoordinate(coord, precision) ==
  IF coord.kind \in {"null", "NaN", "string"} \/ (coord.kind = "number" /\ coord.val = 0)
    THEN Null
    ELSE IF coord.kind = "Infinity" THEN coord
    ELSE Num(MathTrunc(DoubleProduct(coord.val, precision),
                       MicroPerDegree \div 10 ^ precision))

normalize_clamped(value, min, max, scale) ==
  IF max = min THEN (IF min > 0 THEN scale ELSE 0)
  ELSE IF value.kind \in {"null", "NaN", "string"} THEN 0
  ELSE (((value.val - min) * scale) \div (max - min)) + 1

normalize_nullFirst(value, min, max, scale) ==
  IF value.kind \in {"null", "NaN", "string"} THEN 0
  ELSE IF max = min THEN (IF min > 0 THEN scale ELSE 0)
  ELSE MathRound((value.val - min) * scale, max - min)

normalize(value, min, max, scale) ==
  IF max = min THEN (IF min > 0 THEN scale ELSE 0)
  ELSE IF value.kind \in {"null", "NaN", "string"} THEN 0
  ELSE MathRound((value.val - min) * scale, max - min)

\* the minimum taken as 0, the value min starts from in other normalizers
getMinMax_zeroMin(countsMap) ==
  LET vals == {countsMap[k].val : k \in {x \in DOMAIN countsMap : countsMap[x].kind = "number"}}
  IN IF vals # {} THEN [min |-> 0, max |-> SetMax(vals)]
     ELSE [min |-> 0, max |-> 0]

getMinMax(countsMap) ==
  LET vals == {countsMap[k].val : k \in {x \in DOMAIN countsMap : countsMap[x].kind = "number"}}
  IN IF vals # {} THEN [min |-> SetMin(vals), max |-> SetMax(vals)]
     ELSE [min |-> 0, max |-> 0]

\* ------------------------------------------------------- the alerts table
\* pubMillis >= lo AND pubMillis < hi; a NULL pubMillis compares as unknown
SqlInRange(pubMillis, lo, hi) ==
  pubMillis.kind = "number" /\ pubMillis.val >= lo /\ pubMillis.val < hi

SqlAtLeast(pubMillis, lo) == pubMillis.kind = "number" /\ pubMillis.val >= lo

SqlNotNull(x) == x.kind # "null"

\* --------------------------------------------------------- density pipeline
\* the rows of the SELECT, in table order; the caller reads an empty result
\* as "no reports"
processTimeWindowForDensity(table, windowDef, referenceTimestamp) ==
  LET startMillis == referenceTimestamp - windowDef.daysAgoEnd * DAY_MS
      endMillisStrict == referenceTimestamp - windowDef.daysAgoStart * DAY_MS
  IN SelectSeq(table, LAMBDA a :
       /\ SqlInRange(a.pubMillis, startMillis, endMillisStrict)
       /\ SqlNotNull(a.longitude) /\ SqlNotNull(a.latitude))

RECURSIVE CountCells(_, _, _, _)
CountCells(reports, level, i, cellCounts) ==
  IF i > Len(reports) THEN cellCounts
  ELSE LET lonScaled == scaleCoordinate(reports[i].longitude, level)
           latScaled == scaleCoordinate(reports[i].latitude, level)
           key == CellKey(lonScaled, latScaled)
       IN IF lonScaled = Null \/ latScaled = Null
            THEN CountCells(reports, level, i + 1, cellCounts)
            ELSE CountCells(reports, level, i + 1,
                            MapSet(cellCounts, key, MapGet(cellCounts, key, 0) + 1))

\* every cell counted once, however many reports fall into it
processPrecisionLevelForDensity_noCount(reports, level) ==
  [k \in DOMAIN CountCells(reports, level, 1, EmptyMap) |-> 1]

\* the Map of counts per cell; the caller reads an empty Map as "no cells"
processPrecisionLevelForDensity(reports, level) ==
  CountCells(reports, level, 1, EmptyMap)

\* without the test density > 0
prepareDensityInserts_keepZero(cellCounts, level, windowId) ==
  LET logScaledCounts == [k \in DOMAIN cellCounts |-> Num(Math_log1p(cellCounts[k]))]
      mm == getMinMax(logScaledCounts)
      densityOf(k) == normalize(logScaledCounts[k], mm.min, mm.max, 255)
  IN { [time_window_id |-> windowId, level |-> level,
        lon_scaled |-> KeyLon(k), lat_scaled |-> KeyLat(k), density |-> densityOf(k)] :
       k \in DOMAIN cellCounts }

prepareDensityInserts(cellCounts, level, windowId) ==
  LET logScaledCounts == [k \in DOMAIN cellCounts |-> Num(Math_log1p(cellCounts[k]))]
      mm == getMinMax(logScaledCounts)
      densityOf(k) == normalize(logScaledCounts[k], mm.min, mm.max, 255)
  IN { [time_window_id |-> windowId, level |-> level,
        lon_scaled |-> KeyLon(k), lat_scaled |-> KeyLat(k), density |-> densityOf(k)] :
       k \in {x \in DOMAIN cellCounts : densityOf(x) > 0} }

DensityKey(row) == <<row.time_window_id, row.level, row.lon_scaled, row.lat_scaled>>

\* ------------------------------------------------------- diversity pipeline
\* CASE WHEN pubMillis >= ref - daysAgoEnd * DAY_MS THEN id ... ELSE NULL END:
\* the first window, in list order, whose lower boundary the row satisfies
RECURSIVE TimeWindowIdCase(_, _, _)
TimeWindowIdCase(pubMillis, referenceTimestamp, i) ==
  IF i > Len(TIME_WINDOWS) THEN Null
  ELSE IF SqlAtLeast(pubMillis, referenceTimestamp - TIME_WINDOWS[i].daysAgoEnd * DAY_MS)
    THEN Num(TIME_WINDOWS[i].id)
    ELSE TimeWindowIdCase(pubMillis, referenceTimestamp, i + 1)

\* the boundary of each WHEN taken from daysAgoStart in place of daysAgoEnd
getTimeWindowIdSqlCase_byStart(pubMillis, referenceTimestamp) ==
  LET hit == {i \in DOMAIN TIME_WINDOWS :
                SqlAtLeast(pubMillis, referenceTimestamp - TIME_WINDOWS[i].daysAgoStart * DAY_MS)}
  IN IF hit = {} THEN Null ELSE Num(TIME_WINDOWS[SetMin(hit)].id)

getTimeWindowIdSqlCase(pubMillis, referenceTimestamp) ==
  TimeWindowIdCase(pubMillis, referenceTimestamp, 1)

RECURSIVE WithTimeWindowId(_, _, _)
WithTimeWindowId(table, referenceTimestamp, i) ==
  IF i > Len(table) THEN <<>>
  ELSE <<[longitude |-> table[i].longitude, latitude |-> table[i].latitude,
          timeWindowId |-> getTimeWindowIdSqlCase(table[i].pubMillis, referenceTimestamp)]>>
       \o WithTimeWindowId(table, referenceTimestamp, i + 1)

\* the SELECT of Phase A followed by the filter on timeWindowId !== null
SelectValidAlertsForDiversity(table, referenceTimestamp) ==
  LET oldestTimeWindow == TIME_WINDOWS[Len(TIME_WINDOWS)]
      oldestRelevantPubMillis == referenceTimestamp - oldestTimeWindow.daysAgoEnd * DAY_MS
      selected == SelectSeq(table, LAMBDA a :
                    /\ SqlNotNull(a.latitude) /\ SqlNotNull(a.longitude)
                    /\ SqlAtLeast(a.pubMillis, oldestRelevantPubMillis))
  IN SelectSeq(WithTimeWindowId(selected, referenceTimestamp, 1),
               LAMBDA a : a.timeWindowId # Null)

RECURSIVE BuildCellMap(_, _, _)
BuildCellMap(validAlerts, i, map) ==
  IF i > Len(validAlerts) THEN map
  ELSE LET lonScaled == scaleCoordinate(validAlerts[i].longitude, PRECISION.MAX)
           latScaled == scaleCoordinate(validAlerts[i].latitude, PRECISION.MAX)
           cellKey == CellKey(lonScaled, latScaled)
           tw == validAlerts[i].timeWindowId.val
       IN IF lonScaled = Null \/ latScaled = Null
            THEN BuildCellMap(validAlerts, i + 1, map)
            ELSE IF cellKey \notin DOMAIN map \/ tw < map[cellKey]
              THEN BuildCellMap(validAlerts, i + 1, MapSet(map, cellKey, tw))
              ELSE BuildCellMap(validAlerts, i + 1, map)

\* anchorScaled + d : Infinity + d is Infinity
JsAdd(x, d) == IF x.kind = "number" THEN Num(x.val + d) ELSE x

\* Math.floor(x / 10) in place of Math.trunc(x / 10)
JsTruncDiv10_floor(x) == IF x.kind = "number" THEN Num(x.val \div 10) ELSE x

\* Math.trunc(x / 10) : Infinity / 10 is Infinity
JsTruncDiv10(x) == IF x.kind = "number" THEN Num(MathTrunc(x.val, 10)) ELSE x

\* Math.floor(currentRadius / cellResolution), cellResolution = 10^-PRECISION.MAX
neighborhoodHalfWidthInCells(radiusGroupId) ==
  DIVERSITY_RADII[radiusGroupId + 1] \div (MicroPerDegree \div 10 ^ PRECISION.MAX)

\* the number of indexed cells of the square in place of their distinct labels
diversityScoreForAnchor_cells(anchorLonScaled, anchorLatScaled, halfWidth, map) ==
  LET inSquare(k) ==
        /\ \E dx \in -halfWidth .. halfWidth : KeyLon(k) = JsAdd(anchorLonScaled, dx)
        /\ \E dy \in -halfWidth .. halfWidth : KeyLat(k) = JsAdd(anchorLatScaled, dy)
  IN Cardinality({x \in DOMAIN map : inSquare(x)})

\* the labels of the outline of the square in place of those of the square
diversityScoreForAnchor_outline(anchorLonScaled, anchorLatScaled, halfWidth, map) ==
  LET onOutline(k) ==
        /\ \E dx \in -halfWidth .. halfWidth : KeyLon(k) = JsAdd(anchorLonScaled, dx)
        /\ \E dy \in -halfWidth .. halfWidth : KeyLat(k) = JsAdd(anchorLatScaled, dy)
        /\ \/ \E dx \in {-halfWidth, halfWidth} : KeyLon(k) = JsAdd(anchorLonScaled, dx)
           \/ \E dy \in {-halfWidth, halfWidth} : KeyLat(k) = JsAdd(anchorLatScaled, dy)
  IN Cardinality({map[k] : k \in {x \in DOMAIN map : onOutline(x)}})

\* uniqueTimeWindowsInProximity.size for one anchor cell: the labels of the keys
\* of the map that are `${anchorLon + dx}_${anchorLat + dy}` for some dx and dy
\* of the two loops
diversityScoreForAnchor(anchorLonScaled, anchorLatScaled, halfWidth, map) ==
  LET inSquare(k) ==
        /\ \E dx \in -halfWidth .. halfWidth : KeyLon(k) = JsAdd(anchorLonScaled, dx)
        /\ \E dy \in -halfWidth .. halfWidth : KeyLat(k) = JsAdd(anchorLatScaled, dy)
  IN Cardinality({map[k] : k \in {x \in DOMAIN map : inSquare(x)}})

RECURSIVE ScoreAnchors(_, _, _, _, _)
ScoreAnchors(validAlerts, i, halfWidth, map, levelMaxCellDiversity) ==
  IF i > Len(validAlerts) THEN levelMaxCellDiversity
  ELSE LET anchorLonScaled == scaleCoordinate(validAlerts[i].longitude, PRECISION.MAX)
           anchorLatScaled == scaleCoordinate(validAlerts[i].latitude, PRECISION.MAX)
           anchorCellKey == CellKey(anchorLonScaled, anchorLatScaled)
           score == diversityScoreForAnchor(anchorLonScaled, anchorLatScaled, halfWidth, map)
       IN IF anchorLonScaled = Null \/ anchorLatScaled = Null
            THEN ScoreAnchors(validAlerts, i + 1, halfWidth, map, levelMaxCellDiversity)
            ELSE ScoreAnchors(validAlerts, i + 1, halfWidth, map,
                   MapSet(levelMaxCellDiversity, anchorCellKey,
                          Max2(MapGet(levelMaxCellDiversity, anchorCellKey, 0), score)))

DiversityInserts(cellDiversity, radiusGroupId, level) ==
  { [radius_group_id |-> radiusGroupId, level |-> level,
     lon_scaled |-> KeyLon(k), lat_scaled |-> KeyLat(k), diversity_score |-> cellDiversity[k]] :
    k \in {x \in DOMAIN cellDiversity : cellDiversity[x] > 0} }

levelMaxInserts(validAlerts, map, radiusGroupId) ==
  DiversityInserts(
    ScoreAnchors(validAlerts, 1, neighborhoodHalfWidthInCells(radiusGroupId), map, EmptyMap),
    radiusGroupId, PRECISION.MAX)

\* the read-back SELECT without its radius_group_id condition
higherLevelCells_anyGroup(table, radiusGroupId, level) ==
  {r \in table : r.level = level}

\* the rows of temporal_diversity_grids for one radius group and level
higherLevelCells(table, radiusGroupId, level) ==
  {r \in table : r.radius_group_id = radiusGroupId /\ r.level = level}

\* the minimum per parent cell in place of the maximum
RECURSIVE lowerLevelCellDiversity_min(_, _)
lowerLevelCellDiversity_min(cells, acc) ==
  IF cells = {} THEN acc
  ELSE LET higherCell == CHOOSE c \in cells : TRUE
           parentCellKey == CellKey(JsTruncDiv10(higherCell.lon_scaled),
                                    JsTruncDiv10(higherCell.lat_scaled))
           soFar == MapGet(acc, parentCellKey, higherCell.diversity_score)
       IN lowerLevelCellDiversity_min(cells \ {higherCell},
            MapSet(acc, parentCellKey,
                   IF soFar <= higherCell.diversity_score
                     THEN soFar ELSE higherCell.diversity_score))

\* the sum per parent cell in place of the maximum
RECURSIVE lowerLevelCellDiversity_sum(_, _)
lowerLevelCellDiversity_sum(cells, acc) ==
  IF cells = {} THEN acc
  ELSE LET higherCell == CHOOSE c \in cells : TRUE
           parentCellKey == CellKey(JsTruncDiv10(higherCell.lon_scaled),
                                    JsTruncDiv10(higherCell.lat_scaled))
       IN lowerLevelCellDiversity_sum(cells \ {higherCell},
            MapSet(acc, parentCellKey,
                   MapGet(acc, parentCellKey, 0) + higherCell.diversity_score))

\* the running maximum per parent cell; the rows come in no particular order
RECURSIVE lowerLevelCellDiversity(_, _)
lowerLevelCellDiversity(cells, acc) ==
  IF cells = {} THEN acc
  ELSE LET higherCell == CHOOSE c \in cells : TRUE
           parentCellKey == CellKey(JsTruncDiv10(higherCell.lon_scaled),
                                    JsTruncDiv10(higherCell.lat_scaled))
       IN lowerLevelCellDiversity(cells \ {higherCell},
            MapSet(acc, parentCellKey,
                   Max2(MapGet(acc, parentCellKey, 0), higherCell.diversity_score)))

currentLevelInserts(table, radiusGroupId, level) ==
  DiversityInserts(
    lowerLevelCellDiversity(higherLevelCells(table, radiusGroupId, level + 1), EmptyMap),
    radiusGroupId, level)

DiversityKey(row) == <<row.radius_group_id, row.level, row.lon_scaled, row.lat_scaled>>

\* a transaction of INSERTs: a primary-key conflict throws and rolls back
BulkInsertThrows(tableKeys, itemKeys) == tableKeys \cap itemKeys # {}

\* --------------------------------------------------------------- variables
VARIABLES
  alerts,                        \* the alerts table, one row per uuid (the index)
  density_grids,                 \* the rows of table density_grids
  temporal_diversity_grids,      \* the rows of table temporal_diversity_grids
  metadata,                      \* table metadata: key -> value
  pc,                            \* where updateGrids stands
  referenceTimestamp,            \* 0 while not assigned
  windowIdx,                     \* index into TIME_WINDOWS of the density loop
  validReports,                  \* the reports of the current window
  level,                         \* the level of the current level loop
  validAlertsForDiversity,
  cellMostRecentTimeWindowIdMap,
  radiusGroupId,
  faults,                        \* storage operations that have thrown so far
  failedWrites,                  \* the batch writes of this run that threw
  referenceQueryFailed,          \* the reference query of this run threw
  runs,                          \* runs started so far
  prev,                          \* the tables as the previous run left them
  stale,                         \* the rows a run found in the tables and has not deleted
  call,                          \* a helper applied on its own: its arguments
  result,                        \* ... and what it returned
  mainPc,                        \* where the main process of index.js stands
  taskRunningFlags,              \* index.js: task name -> a child of it is out
  timestamps,                    \* last_execution_times.json: task name -> times
  children,                      \* the child processes forked for each task
  now,                           \* the clock of the main process, in minutes
  nextTick,                      \* when the interval timer of each task is due
  groupLevel                     \* radius group -> the level its steps have come to

runVars ==
  <<alerts, density_grids, temporal_diversity_grids, metadata, pc, referenceTimestamp,
    windowIdx, validReports, level, validAlertsForDiversity,
    cellMostRecentTimeWindowIdMap, radiusGroupId, faults, failedWrites,
    referenceQueryFailed, runs, prev, stale>>

schedVars == <<mainPc, taskRunningFlags, timestamps, children, now, nextTick>>

vars == <<runVars, call, result, schedVars, groupLevel>>

\* ------------------------------------------------------ the stores checked
Alert(uuid, t, lon, lat) ==
  [uuid |-> uuid, pubMillis |-> t, longitude |-> lon, latitude |-> lat]

\* The rows a store of the model is made of.  At precision 5 rows 1-3 share
\* cell (1, 10), row 4 is cell (0, 0) from a negative longitude and row 5 is
\* cell (-1, 0) next to it; cell (1, 10) is within 10 cells of both and within
\* 5 of neither.  Row 6 has a zero longitude.  Row 4 is exactly 7 days older
\* than row 6, and row 2 is 89 days older than row 1 and 91.5 days older
\* than row 6.
AlertUniverse ==
  << Alert(1, Num(390), Num(15), Num(105)),
     Alert(2, Num(212), Num(15), Num(105)),
     Alert(3, Num(389), Num(15), Num(105)),
     Alert(4, Num(381), Num(-5), Num(5)),
     Alert(5, Num(366), Num(-15), Num(5)),
     Alert(6, Num(395), Num(0), Num(20010)) >>

\* every store of at most MaxAlerts of these rows, in uuid order
AlertStores ==
  { SelectSeq(AlertUniverse, LAMBDA a : a.uuid \in S) :
    S \in {T \in SUBSET (1 .. Len(AlertUniverse)) : Cardinality(T) <= MaxAlerts} }

\* Date.now()
NowValues == {401, 403}

\* ------------------------------------------------- the scheduler's state
WAZE_TASK_NAME == "waze_alerts_fetch"
GRID_TASK_NAME == "grid_data_update"
Tasks == {WAZE_TASK_NAME, GRID_TASK_NAME}

\* The scheduler's times are in minutes.  The two intervals are settings of
\* the environment, here 1 and 2 minutes.
MINIMUM_POST_COMPLETION_INTERVAL_MS == 1
WAZE_UPDATE_INTERVAL_MS == 1
GRID_UPDATE_INTERVAL_MS == 2

IntervalOf(taskName) ==
  IF taskName = WAZE_TASK_NAME THEN WAZE_UPDATE_INTERVAL_MS ELSE GRID_UPDATE_INTERVAL_MS

\* Date.now() when index.js is loaded
StartTime == 10

\* readTimestamps() of a missing file is {}: a task without an entry reads 0
\* for both of its times
NoTimestamps == [t \in Tasks |-> [lastAttemptedStart |-> 0, lastCompletion |-> 0]]

\* startedAt is the `now` the handlers of the child of a task closed over
NoChildren == [t \in Tasks |-> [running |-> 0, spawnFailed |-> 0, startedAt |-> 0]]

\* index.js is loaded: the flags are false, both timers are set, main() is
\* about to call setup()
SchedulerStarts ==
  /\ mainPc = "setup"
  /\ taskRunningFlags = [t \in Tasks |-> FALSE]
  /\ timestamps = NoTimestamps
  /\ children = NoChildren
  /\ now = StartTime
  /\ nextTick = [t \in Tasks |-> StartTime + IntervalOf(t)]

MetadataKeys ==
  {"last_grid_update_timestamp", "center_longitude", "center_latitude",
   "total_alerts_in_time_windows"}

NoSnapshot == [completed |-> FALSE]
NoRows == [density_grids |-> {}, temporal_diversity_grids |-> {}]

TypeOK ==
  /\ pc \in {"idle", "opened", "reference", "density_window", "density_level",
             "diversity_query", "diversity_level_max", "diversity_rollup",
             "metadata", "done", "rejected"}
  /\ faults \in 0 .. MaxFaults
  /\ runs \in 1 .. 2
  /\ level \in Levels
  /\ radiusGroupId \in 0 .. Len(DIVERSITY_RADII) - 1
  /\ windowIdx \in 1 .. Len(TIME_WINDOWS)
  /\ DOMAIN metadata \subseteq MetadataKeys

Init ==
  /\ alerts \in AlertStores
  /\ density_grids = {}
  /\ temporal_diversity_grids = {}
  /\ metadata = EmptyMap
  /\ pc = "idle"
  /\ referenceTimestamp = 0
  /\ windowIdx = 1
  /\ validReports = <<>>
  /\ level = PRECISION.MAX
  /\ validAlertsForDiversity = <<>>
  /\ cellMostRecentTimeWindowIdMap = EmptyMap
  /\ radiusGroupId = 0
  /\ faults = 0
  /\ failedWrites = {}
  /\ referenceQueryFailed = FALSE
  /\ runs = 1
  /\ prev = NoSnapshot
  /\ stale = NoRows
  /\ call = [fn |-> "none"]
  /\ result = Null
  /\ groupLevel = [g \in 0 .. Len(DIVERSITY_RADII) - 1 |-> PRECISION.MAX]
  /\ SchedulerStarts

loopVars ==
  <<windowIdx, validReports, level, validAlertsForDiversity,
    cellMostRecentTimeWindowIdMap, radiusGroupId>>
tableVars == <<density_grids, temporal_diversity_grids, metadata>>
ghostVars == <<failedWrites, referenceQueryFailed, runs, prev>>
fnVars == <<call, result>>

\* a storage operation throws: the model lets MaxFaults of them happen
CanThrow == faults < MaxFaults
Thrown == faults' = faults + 1

\* an error nothing catches: updateGrids rejects and the runner exits 1
Rejects == pc' = "rejected"

\* ------------------------------------------------------------- updateGrids
\* new Database(dbPath); db.pragma("journal_mode = WAL")
OpenDatabase ==
  /\ pc = "idle"
  /\ pc' = "opened"
  /\ UNCHANGED <<alerts, tableVars, referenceTimestamp, loopVars, faults, ghostVars, stale, fnVars, schedVars, groupLevel>>

OpenDatabaseThrows ==
  /\ pc = "idle"
  /\ CanThrow /\ Thrown /\ Rejects
  /\ UNCHANGED <<alerts, tableVars, referenceTimestamp, loopVars, ghostVars, stale, fnVars, schedVars, groupLevel>>

\* neither DROP TABLE takes a row away
InitializeDatabaseEffect_noDrop(done) ==
  /\ UNCHANGED <<density_grids, temporal_diversity_grids, stale>>
  /\ UNCHANGED <<alerts, metadata>>

\* the nine statements of initializeDatabase, the first `done` of them run:
\* statement 3 drops density_grids, statement 6 drops temporal_diversity_grids
InitializeDatabaseEffect(done) ==
  /\ density_grids' = IF done >= 3 THEN {} ELSE density_grids
  /\ temporal_diversity_grids' = IF done >= 6 THEN {} ELSE temporal_diversity_grids
  /\ stale' = [density_grids |-> stale.density_grids \cap density_grids',
               temporal_diversity_grids |->
                 stale.temporal_diversity_grids \cap temporal_diversity_grids']
  /\ UNCHANGED <<alerts, metadata>>

initializeDatabase ==
  /\ pc = "opened"
  /\ InitializeDatabaseEffect(9)
  /\ pc' = "reference"
  /\ UNCHANGED <<referenceTimestamp, loopVars, faults, ghostVars, fnVars, schedVars, groupLevel>>

initializeDatabaseThrows ==
  /\ pc = "opened"
  /\ CanThrow /\ Thrown /\ Rejects
  /\ \E done \in 0 .. 8 : InitializeDatabaseEffect(done)
  /\ UNCHANGED <<referenceTimestamp, loopVars, ghostVars, fnVars, schedVars, groupLevel>>

\* the pubMillis of the first row in place of the maximum
MaxPubMillis_first(table) ==
  IF Len(table) = 0 THEN Null ELSE table[1].pubMillis

\* SELECT MAX(pubMillis): NULL when no row has a pubMillis
MaxPubMillis(table) ==
  LET ts == {table[i].pubMillis.val : i \in {j \in DOMAIN table : table[j].pubMillis.kind = "number"}}
  IN IF ts = {} THEN Null ELSE Num(SetMax(ts))

StartDensity ==
  /\ pc' = "density_window"
  /\ windowIdx' = 1
  /\ UNCHANGED <<validReports, level, validAlertsForDiversity,
                 cellMostRecentTimeWindowIdMap, radiusGroupId>>

\* lines 360-375: the alerts table exists (initializeDatabase created it)
DetermineReference ==
  /\ pc = "reference"
  /\ LET maxPubMillisRow == MaxPubMillis(alerts)
     IN IF maxPubMillisRow # Null
          THEN referenceTimestamp' = maxPubMillisRow.val
          ELSE referenceTimestamp' \in NowValues
  /\ StartDensity
  /\ UNCHANGED <<alerts, tableVars, faults, ghostVars, stale, fnVars, schedVars, groupLevel>>

\* lines 376-379: the query throws, the catch falls back to Date.now()
DetermineReferenceCaught ==
  /\ pc = "reference"
  /\ CanThrow /\ Thrown
  /\ referenceTimestamp' \in NowValues
  /\ referenceQueryFailed' = TRUE
  /\ StartDensity
  /\ UNCHANGED <<alerts, tableVars, failedWrites, runs, prev, stale, fnVars, schedVars, groupLevel>>

\* the window loop left after its first window
NextWindow_leavesEarly ==
  /\ pc' = "diversity_query" /\ windowIdx' = windowIdx
  /\ validReports' = <<>>
  /\ level' = PRECISION.MAX

\* the window loop moves on: to the next window, or out of the density pipeline
NextWindow ==
  /\ IF windowIdx < Len(TIME_WINDOWS)
       THEN pc' = "density_window" /\ windowIdx' = windowIdx + 1
       ELSE pc' = "diversity_query" /\ windowIdx' = windowIdx
  /\ validReports' = <<>>
  /\ level' = PRECISION.MAX

DensityWindow ==
  /\ pc = "density_window"
  /\ LET reports == processTimeWindowForDensity(alerts, TIME_WINDOWS[windowIdx], referenceTimestamp)
     IN IF Len(reports) = 0
          THEN NextWindow
          ELSE /\ validReports' = reports
               /\ level' = PRECISION.MAX
               /\ pc' = "density_level"
               /\ UNCHANGED windowIdx
  /\ UNCHANGED <<alerts, tableVars, referenceTimestamp, validAlertsForDiversity,
                 cellMostRecentTimeWindowIdMap, radiusGroupId, faults, ghostVars, stale, fnVars, schedVars, groupLevel>>

\* the SELECT of processTimeWindowForDensity throws: nothing catches it
DensityWindowThrows ==
  /\ pc = "density_window"
  /\ CanThrow /\ Thrown /\ Rejects
  /\ UNCHANGED <<alerts, tableVars, referenceTimestamp, loopVars, ghostVars, stale, fnVars, schedVars, groupLevel>>

NextDensityLevel ==
  IF level > PRECISION.MIN
    THEN /\ level' = level - 1
         /\ UNCHANGED <<pc, windowIdx, validReports>>
    ELSE NextWindow

DensityInsertsNow ==
  LET cellCounts == processPrecisionLevelForDensity(validReports, level)
  IN IF DOMAIN cellCounts = {} THEN {}
     ELSE prepareDensityInserts(cellCounts, level, TIME_WINDOWS[windowIdx].id)

\* one pass of the level loop, bulkInsert committing (or hitting a key conflict)
DensityLevel ==
  /\ pc = "density_level"
  /\ LET inserts == DensityInsertsNow
     IN IF BulkInsertThrows({DensityKey(r) : r \in density_grids},
                             {DensityKey(i) : i \in inserts})
          THEN /\ failedWrites' = failedWrites \cup {<<"density", TIME_WINDOWS[windowIdx].id, level>>}
               /\ UNCHANGED density_grids
          ELSE /\ density_grids' = density_grids \cup inserts
               /\ UNCHANGED failedWrites
  /\ NextDensityLevel
  /\ UNCHANGED <<alerts, temporal_diversity_grids, metadata, referenceTimestamp,
                 validAlertsForDiversity, cellMostRecentTimeWindowIdMap, radiusGroupId,
                 faults, referenceQueryFailed, runs, prev, stale, fnVars, schedVars, groupLevel>>

\* the transaction does not roll back: a row inserted before the failure stays
DensityLevelInsertFails_partial ==
  /\ pc = "density_level"
  /\ DensityInsertsNow # {}
  /\ CanThrow /\ Thrown
  /\ failedWrites' = failedWrites \cup {<<"density", TIME_WINDOWS[windowIdx].id, level>>}
  /\ density_grids' = density_grids \cup {CHOOSE r \in DensityInsertsNow : TRUE}
  /\ NextDensityLevel
  /\ UNCHANGED <<alerts, temporal_diversity_grids, metadata, referenceTimestamp,
                 validAlertsForDiversity, cellMostRecentTimeWindowIdMap, radiusGroupId,
                 referenceQueryFailed, runs, prev, stale, fnVars, schedVars, groupLevel>>

\* one pass of the level loop, bulkInsert throwing: the transaction rolls back
DensityLevelInsertFails ==
  /\ pc = "density_level"
  /\ DensityInsertsNow # {}
  /\ CanThrow /\ Thrown
  /\ failedWrites' = failedWrites \cup {<<"density", TIME_WINDOWS[windowIdx].id, level>>}
  /\ NextDensityLevel
  /\ UNCHANGED <<alerts, tableVars, referenceTimestamp, validAlertsForDiversity,
                 cellMostRecentTimeWindowIdMap, radiusGroupId, referenceQueryFailed,
                 runs, prev, stale, fnVars, schedVars, groupLevel>>

\* Phase A: the SELECT, the filter, and the index of the most recent window
DiversityQuery ==
  /\ pc = "diversity_query"
  /\ LET valid == SelectValidAlertsForDiversity(alerts, referenceTimestamp)
     IN /\ validAlertsForDiversity' = valid
        /\ IF Len(valid) = 0
             THEN /\ pc' = "metadata"
                  /\ UNCHANGED cellMostRecentTimeWindowIdMap
             ELSE /\ pc' = "diversity_level_max"
                  /\ cellMostRecentTimeWindowIdMap' = BuildCellMap(valid, 1, EmptyMap)
  /\ radiusGroupId' = 0
  /\ UNCHANGED <<alerts, tableVars, referenceTimestamp, windowIdx, validReports, level,
                 faults, ghostVars, stale, fnVars, schedVars, groupLevel>>

DiversityQueryThrows ==
  /\ pc = "diversity_query"
  /\ CanThrow /\ Thrown /\ Rejects
  /\ UNCHANGED <<alerts, tableVars, referenceTimestamp, loopVars, ghostVars, stale, fnVars, schedVars, groupLevel>>

LevelMaxInsertsNow ==
  levelMaxInserts(validAlertsForDiversity, cellMostRecentTimeWindowIdMap, radiusGroupId)

\* Phase B steps 1-3 for one radius group, bulkInsertDiversity committing
DiversityLevelMax ==
  /\ pc = "diversity_level_max"
  /\ LET inserts == LevelMaxInsertsNow
     IN IF BulkInsertThrows({DiversityKey(r) : r \in temporal_diversity_grids},
                             {DiversityKey(i) : i \in inserts})
          THEN /\ failedWrites' = failedWrites \cup {<<"diversity", radiusGroupId, PRECISION.MAX>>}
               /\ UNCHANGED temporal_diversity_grids
          ELSE /\ temporal_diversity_grids' = temporal_diversity_grids \cup inserts
               /\ UNCHANGED failedWrites
  /\ pc' = "diversity_rollup"
  /\ level' = PRECISION.MAX - 1
  /\ UNCHANGED <<alerts, density_grids, metadata, referenceTimestamp, windowIdx,
                 validReports, validAlertsForDiversity, cellMostRecentTimeWindowIdMap,
                 radiusGroupId, faults, referenceQueryFailed, runs, prev, stale, fnVars, schedVars, groupLevel>>

\* the catch around the level-PRECISION.MAX write rethrows
DiversityLevelMaxInsertFails_raises ==
  /\ pc = "diversity_level_max"
  /\ LevelMaxInsertsNow # {}
  /\ CanThrow /\ Thrown /\ Rejects
  /\ failedWrites' = failedWrites \cup {<<"diversity", radiusGroupId, PRECISION.MAX>>}
  /\ UNCHANGED <<alerts, tableVars, referenceTimestamp, loopVars,
                 referenceQueryFailed, runs, prev, stale, fnVars, schedVars, groupLevel>>

DiversityLevelMaxInsertFails ==
  /\ pc = "diversity_level_max"
  /\ LevelMaxInsertsNow # {}
  /\ CanThrow /\ Thrown
  /\ failedWrites' = failedWrites \cup {<<"diversity", radiusGroupId, PRECISION.MAX>>}
  /\ pc' = "diversity_rollup"
  /\ level' = PRECISION.MAX - 1
  /\ UNCHANGED <<alerts, tableVars, referenceTimestamp, windowIdx, validReports,
                 validAlertsForDiversity, cellMostRecentTimeWindowIdMap, radiusGroupId,
                 referenceQueryFailed, runs, prev, stale, fnVars, schedVars, groupLevel>>

\* the roll-up loop moves on: a coarser level, the next radius group, or out
NextRollUpLevel ==
  IF level > PRECISION.MIN
    THEN /\ level' = level - 1
         /\ UNCHANGED <<pc, radiusGroupId>>
    ELSE /\ level' = PRECISION.MAX
         /\ IF radiusGroupId + 1 < Len(DIVERSITY_RADII)
              THEN pc' = "diversity_level_max" /\ radiusGroupId' = radiusGroupId + 1
              ELSE pc' = "metadata" /\ radiusGroupId' = radiusGroupId

RollUpInsertsNow == currentLevelInserts(temporal_diversity_grids, radiusGroupId, level)

\* one pass of the roll-up loop: read level + 1 back, write this level
DiversityRollUp ==
  /\ pc = "diversity_rollup"
  /\ LET inserts == RollUpInsertsNow
     IN IF BulkInsertThrows({DiversityKey(r) : r \in temporal_diversity_grids},
                             {DiversityKey(i) : i \in inserts})
          THEN /\ failedWrites' = failedWrites \cup {<<"diversity", radiusGroupId, level>>}
               /\ UNCHANGED temporal_diversity_grids
          ELSE /\ temporal_diversity_grids' = temporal_diversity_grids \cup inserts
               /\ UNCHANGED failedWrites
  /\ NextRollUpLevel
  /\ UNCHANGED <<alerts, density_grids, metadata, referenceTimestamp, windowIdx,
                 validReports, validAlertsForDiversity, cellMostRecentTimeWindowIdMap,
                 faults, referenceQueryFailed, runs, prev, stale, fnVars, schedVars, groupLevel>>

\* the transaction leaves a row of the batch behind when it throws
DiversityRollUpInsertFails_partial ==
  /\ pc = "diversity_rollup"
  /\ RollUpInsertsNow # {}
  /\ CanThrow /\ Thrown
  /\ failedWrites' = failedWrites \cup {<<"diversity", radiusGroupId, level>>}
  /\ temporal_diversity_grids' =
       temporal_diversity_grids \cup {CHOOSE r \in RollUpInsertsNow : TRUE}
  /\ NextRollUpLevel
  /\ UNCHANGED <<alerts, density_grids, metadata, referenceTimestamp, windowIdx, validReports,
                 validAlertsForDiversity, cellMostRecentTimeWindowIdMap,
                 referenceQueryFailed, runs, prev, stale, fnVars, schedVars, groupLevel>>

DiversityRollUpInsertFails ==
  /\ pc = "diversity_rollup"
  /\ RollUpInsertsNow # {}
  /\ CanThrow /\ Thrown
  /\ failedWrites' = failedWrites \cup {<<"diversity", radiusGroupId, level>>}
  /\ NextRollUpLevel
  /\ UNCHANGED <<alerts, tableVars, referenceTimestamp, windowIdx, validReports,
                 validAlertsForDiversity, cellMostRecentTimeWindowIdMap,
                 referenceQueryFailed, runs, prev, stale, fnVars, schedVars, groupLevel>>

\* the read-back SELECT throws: nothing catches it
DiversityReadBackThrows ==
  /\ pc = "diversity_rollup"
  /\ CanThrow /\ Thrown /\ Rejects
  /\ UNCHANGED <<alerts, tableVars, referenceTimestamp, loopVars, ghostVars, stale, fnVars, schedVars, groupLevel>>

\* pubMillis <= ? in place of pubMillis < ?
totalAlertsInWindows_inclusive(table, ref) ==
  LET maxDaysAgoEnd == SetMax({TIME_WINDOWS[i].daysAgoEnd : i \in DOMAIN TIME_WINDOWS})
      minDaysAgoStart == SetMin({TIME_WINDOWS[i].daysAgoStart : i \in DOMAIN TIME_WINDOWS})
      overallStartMillis == ref - maxDaysAgoEnd * DAY_MS
      overallEndMillisStrict == ref - minDaysAgoStart * DAY_MS
  IN Cardinality({i \in DOMAIN table :
       /\ SqlInRange(table[i].pubMillis, overallStartMillis, overallEndMillisStrict + 1)
       /\ SqlNotNull(table[i].longitude) /\ SqlNotNull(table[i].latitude)})

\* SELECT COUNT(uuid) over [ref - maxDaysAgoEnd, ref - minDaysAgoStart)
totalAlertsInWindows(table, ref) ==
  LET maxDaysAgoEnd == SetMax({TIME_WINDOWS[i].daysAgoEnd : i \in DOMAIN TIME_WINDOWS})
      minDaysAgoStart == SetMin({TIME_WINDOWS[i].daysAgoStart : i \in DOMAIN TIME_WINDOWS})
      overallStartMillis == ref - maxDaysAgoEnd * DAY_MS
      overallEndMillisStrict == ref - minDaysAgoStart * DAY_MS
  IN Cardinality({i \in DOMAIN table :
       /\ SqlInRange(table[i].pubMillis, overallStartMillis, overallEndMillisStrict)
       /\ SqlNotNull(table[i].longitude) /\ SqlNotNull(table[i].latitude)})

\* the total added to the one stored before, in place of replacing it
MetadataWrites_accumulates(ref) ==
  << <<"last_grid_update_timestamp", ref>>,
     <<"center_longitude", (WAZE_AREA_LEFT + WAZE_AREA_RIGHT) \div 2>>,
     <<"center_latitude", (WAZE_AREA_BOTTOM + WAZE_AREA_TOP) \div 2>>,
     <<"total_alerts_in_time_windows",
       MapGet(metadata, "total_alerts_in_time_windows", 0) + totalAlertsInWindows(alerts, ref)>> >>

\* the four INSERT OR REPLACE of updateMetadata in order, the first `done` run
MetadataWrites(ref) ==
  << <<"last_grid_update_timestamp", ref>>,
     <<"center_longitude", (WAZE_AREA_LEFT + WAZE_AREA_RIGHT) \div 2>>,
     <<"center_latitude", (WAZE_AREA_BOTTOM + WAZE_AREA_TOP) \div 2>>,
     <<"total_alerts_in_time_windows", totalAlertsInWindows(alerts, ref)>> >>

\* INSERT OR IGNORE: a key the table holds keeps its value
RECURSIVE InsertOrReplace_ignore(_, _, _)
InsertOrReplace_ignore(table, writes, done) ==
  IF done = 0 THEN table
  ELSE LET before == InsertOrReplace_ignore(table, writes, done - 1)
       IN MapSet(before, writes[done][1], MapGet(before, writes[done][1], writes[done][2]))

RECURSIVE InsertOrReplace(_, _, _)
InsertOrReplace(table, writes, done) ==
  IF done = 0 THEN table
  ELSE MapSet(InsertOrReplace(table, writes, done - 1), writes[done][1], writes[done][2])

\* updateMetadata, db.close(): updateGrids resolves and the runner exits 0
updateMetadata ==
  /\ pc = "metadata"
  /\ metadata' = InsertOrReplace(metadata, MetadataWrites(referenceTimestamp), 4)
  /\ pc' = "done"
  /\ UNCHANGED <<alerts, density_grids, temporal_diversity_grids, referenceTimestamp,
                 loopVars, faults, ghostVars, stale, fnVars, schedVars, groupLevel>>

\* a statement of updateMetadata throws after `done` of the writes
updateMetadataThrows ==
  /\ pc = "metadata"
  /\ CanThrow /\ Thrown /\ Rejects
  /\ \E done \in 0 .. 3 :
       metadata' = InsertOrReplace(metadata, MetadataWrites(referenceTimestamp), done)
  /\ UNCHANGED <<alerts, density_grids, temporal_diversity_grids, referenceTimestamp,
                 loopVars, ghostVars, stale, fnVars, schedVars, groupLevel>>

Next ==
  \/ OpenDatabase \/ OpenDatabaseThrows
  \/ initializeDatabase \/ initializeDatabaseThrows
  \/ DetermineReference \/ DetermineReferenceCaught
  \/ DensityWindow \/ DensityWindowThrows
  \/ DensityLevel \/ DensityLevelInsertFails
  \/ DiversityQuery \/ DiversityQueryThrows
  \/ DiversityLevelMax \/ DiversityLevelMaxInsertFails
  \/ DiversityRollUp \/ DiversityRollUpInsertFails \/ DiversityReadBackThrows
  \/ updateMetadata \/ updateMetadataThrows

Spec == Init /\ [][Next]_vars

\* A failed batch write of one pipeline leaves the table, the loop variables
\* and the reads of the other pipeline alone.  The run in which the batch
\* writes that fail are those of the density pipeline ...
NextDensity ==
  \/ OpenDatabase \/ OpenDatabaseThrows
  \/ initializeDatabase \/ initializeDatabaseThrows
  \/ DetermineReference \/ DetermineReferenceCaught
  \/ DensityWindow \/ DensityWindowThrows
  \/ DensityLevel \/ DensityLevelInsertFails
  \/ DiversityQuery \/ DiversityQueryThrows
  \/ DiversityLevelMax
  \/ DiversityRollUp \/ DiversityReadBackThrows
  \/ updateMetadata \/ updateMetadataThrows

SpecDensity == Init /\ [][NextDensity]_vars

\* ... and the run in which they are those of the diversity pipeline
NextDiversity ==
  \/ OpenDatabase \/ OpenDatabaseThrows
  \/ initializeDatabase \/ initializeDatabaseThrows
  \/ DetermineReference \/ DetermineReferenceCaught
  \/ DensityWindow \/ DensityWindowThrows
  \/ DensityLevel
  \/ DiversityQuery \/ DiversityQueryThrows
  \/ DiversityLevelMax \/ DiversityLevelMaxInsertFails
  \/ DiversityRollUp \/ DiversityRollUpInsertFails \/ DiversityReadBackThrows
  \/ updateMetadata \/ updateMetadataThrows

SpecDiversity == Init /\ [][NextDiversity]_vars

\* ------------------------------------------- the radius groups interleaved
\* The body of the radius loop is a step at level PRECISION.MAX and one step
\* per coarser level.  Here the steps of different radius groups are taken in
\* any order, each group going through its own levels from PRECISION.MAX down.
RadiusGroups == 0 .. Len(DIVERSITY_RADII) - 1

\* what the step of radius group g at level L hands to bulkInsertDiversity
StepInserts(table, validAlerts, map, g, L) ==
  IF L = PRECISION.MAX
    THEN levelMaxInserts(validAlerts, map, g)
    ELSE currentLevelInserts(table, g, L)

\* the table after that step
StepWrites(table, validAlerts, map, g, L) ==
  LET inserts == StepInserts(table, validAlerts, map, g, L)
  IN IF BulkInsertThrows({DiversityKey(r) : r \in table}, {DiversityKey(i) : i \in inserts})
       THEN table
       ELSE table \cup inserts

GroupStep(g) ==
  /\ pc = "diversity_level_max"
  /\ groupLevel[g] >= PRECISION.MIN
  /\ temporal_diversity_grids' =
       StepWrites(temporal_diversity_grids, validAlertsForDiversity,
                  cellMostRecentTimeWindowIdMap, g, groupLevel[g])
  /\ groupLevel' = [groupLevel EXCEPT ![g] = groupLevel[g] - 1]
  /\ pc' = IF \A h \in RadiusGroups : groupLevel'[h] < PRECISION.MIN
             THEN "metadata" ELSE pc
  /\ UNCHANGED <<alerts, density_grids, metadata, referenceTimestamp, loopVars, faults,
                 ghostVars, stale, fnVars, schedVars>>

InterleavedSteps == \E g \in RadiusGroups : GroupStep(g)

NextInterleaved ==
  \/ OpenDatabase
  \/ initializeDatabase
  \/ DetermineReference
  \/ DensityWindow
  \/ DensityLevel
  \/ DiversityQuery
  \/ InterleavedSteps
  \/ updateMetadata

SpecInterleaved == Init /\ [][NextInterleaved]_vars

\* --------------------------------------------------- two runs in a row
\* The scheduler forks the runner again: a second run over the same store.
\* prev keeps what the first run left behind.
RunAgain ==
  /\ pc \in {"done", "rejected"}
  /\ runs = 1
  /\ runs' = 2
  /\ prev' = [completed |-> pc = "done",
              failedWrites |-> failedWrites,
              referenceTimestamp |-> referenceTimestamp,
              density_grids |-> density_grids,
              temporal_diversity_grids |-> temporal_diversity_grids,
              metadata |-> metadata]
  /\ pc' = "idle"
  /\ referenceTimestamp' = 0
  /\ windowIdx' = 1
  /\ validReports' = <<>>
  /\ level' = PRECISION.MAX
  /\ validAlertsForDiversity' = <<>>
  /\ cellMostRecentTimeWindowIdMap' = EmptyMap
  /\ radiusGroupId' = 0
  /\ failedWrites' = {}
  /\ referenceQueryFailed' = FALSE
  /\ stale' = [density_grids |-> density_grids,
               temporal_diversity_grids |-> temporal_diversity_grids]
  /\ UNCHANGED <<alerts, tableVars, faults, fnVars, schedVars, groupLevel>>

NextTwice ==
  \/ OpenDatabase \/ OpenDatabaseThrows
  \/ initializeDatabase \/ initializeDatabaseThrows
  \/ DetermineReference
  \/ DensityWindow \/ DensityLevel
  \/ DiversityQuery \/ DiversityLevelMax \/ DiversityLevelMaxInsertFails
  \/ DiversityRollUp
  \/ updateMetadata \/ updateMetadataThrows
  \/ RunAgain

SpecTwice == Init /\ [][NextTwice]_vars

\* ------------------------------------------------------------ the scheduler
\* index.js forks waze-runner.js and grid-runner.js as child processes.  The
\* grid child is the run above, the Waze child inserts the alerts it fetches.
\* The timestamp file is taken to be readable and writable.

\* what runTaskIfDue reads and writes
SchedulerState ==
  [taskRunningFlags |-> taskRunningFlags, timestamps |-> timestamps,
   children |-> children, threw |-> FALSE]

\* fork(): the child runs; or it cannot be spawned, and 'error' is emitted
\* later and 'exit' never; or fork throws
ForkOutcomes == {"spawned", "error", "throws"}

\* readTimestamps(): the parsed file, or {} when the file cannot be read or
\* parsed (the error is caught and logged)
readTimestamps(file, readable) == IF readable THEN file ELSE NoTimestamps

\* runTaskIfDue past the check of the flag
StartTaskIfDue(s, taskName, intervalMs, outcome, readable) ==
  LET allTimestamps == readTimestamps(s.timestamps, readable)
      taskTimestamps == allTimestamps[taskName]
      lastAttemptedStart == taskTimestamps.lastAttemptedStart
      lastCompletion == taskTimestamps.lastCompletion
      timeSinceLastAttempt == now - lastAttemptedStart
      isDueByMainInterval == timeSinceLastAttempt >= intervalMs
      \* timeSinceLastCompletion is Infinity when lastCompletion is 0
      canRunAfterMinCompletionDelay ==
        \/ lastCompletion = 0
        \/ now - lastCompletion >= MINIMUM_POST_COMPLETION_INTERVAL_MS
  IN IF isDueByMainInterval /\ canRunAfterMinCompletionDelay
       THEN [taskRunningFlags |-> [s.taskRunningFlags EXCEPT ![taskName] = TRUE],
             timestamps |-> [allTimestamps EXCEPT ![taskName] =
                               [lastAttemptedStart |-> now,
                                lastCompletion |-> lastCompletion]],
             children |->
               CASE outcome = "spawned" ->
                      [s.children EXCEPT ![taskName].running = @ + 1,
                                         ![taskName].startedAt = now]
                 [] outcome = "error" ->
                      [s.children EXCEPT ![taskName].spawnFailed = @ + 1,
                                         ![taskName].startedAt = now]
                 [] OTHER -> s.children,
             threw |-> outcome = "throws"]
       ELSE s

\* the flag of the task is not looked at
runTaskIfDue_noFlag(s, taskName, intervalMs, outcome, readable) ==
  StartTaskIfDue(s, taskName, intervalMs, outcome, readable)

runTaskIfDue(s, taskName, intervalMs, outcome, readable) ==
  IF s.taskRunningFlags[taskName]
    THEN s
    ELSE StartTaskIfDue(s, taskName, intervalMs, outcome, readable)

\* grid-runner.js starts in a new process: updateGrids from its first line,
\* over the store and the tables as they are
GridChildStarts ==
  /\ pc' = "idle"
  /\ referenceTimestamp' = 0
  /\ windowIdx' = 1
  /\ validReports' = <<>>
  /\ level' = PRECISION.MAX
  /\ validAlertsForDiversity' = <<>>
  /\ cellMostRecentTimeWindowIdMap' = EmptyMap
  /\ radiusGroupId' = 0
  /\ failedWrites' = {}
  /\ referenceQueryFailed' = FALSE
  /\ stale' = [density_grids |-> density_grids,
               temporal_diversity_grids |-> temporal_diversity_grids]
  /\ UNCHANGED <<runs, prev>>

\* the main process goes on from what a call of runTaskIfDue left
Scheduled(s) ==
  /\ taskRunningFlags' = s.taskRunningFlags
  /\ timestamps' = s.timestamps
  /\ children' = s.children
  /\ IF s.children[GRID_TASK_NAME].running > children[GRID_TASK_NAME].running
       THEN GridChildStarts
       ELSE UNCHANGED <<pc, referenceTimestamp, loopVars, ghostVars, stale>>
  /\ UNCHANGED <<alerts, tableVars, faults, fnVars, groupLevel>>

\* main(): setup() calls runTaskIfDue for the Waze task, then for the grid
\* task, and no event is handled in between; an error thrown ends the process
setup ==
  /\ mainPc = "setup"
  /\ \E o1, o2 \in ForkOutcomes, r1, r2 \in BOOLEAN :
       LET s1 == runTaskIfDue(SchedulerState, WAZE_TASK_NAME, WAZE_UPDATE_INTERVAL_MS, o1, r1)
           s2 == IF s1.threw
                   THEN s1
                   ELSE runTaskIfDue(s1, GRID_TASK_NAME, GRID_UPDATE_INTERVAL_MS, o2, r2)
       IN /\ Scheduled(s2)
          /\ mainPc' = IF s2.threw THEN "exited" ELSE "serving"
  /\ UNCHANGED <<now, nextTick>>

\* a callback of setInterval: the error runTaskIfDue throws is logged
IntervalTick(taskName) ==
  /\ mainPc = "serving"
  /\ now >= nextTick[taskName]
  /\ nextTick' = [nextTick EXCEPT ![taskName] = now + IntervalOf(taskName)]
  /\ \E o \in ForkOutcomes, readable \in BOOLEAN :
       Scheduled(runTaskIfDue(SchedulerState, taskName, IntervalOf(taskName), o, readable))
  /\ UNCHANGED <<mainPc, now>>

WazeIntervalTick == IntervalTick(WAZE_TASK_NAME)
GridIntervalTick == IntervalTick(GRID_TASK_NAME)

\* child.on("exit"): a child of the task has exited with this code.  On code
\* 0 the file is read again, the entry of the task (or, when the file has
\* none, an entry with the start of this child) gets lastCompletion = now,
\* and what was read is written back.
ChildExit(taskName, code) ==
  /\ children[taskName].running > 0
  /\ children' = [children EXCEPT ![taskName].running = @ - 1,
                                  ![taskName].startedAt = 0]
  /\ IF mainPc = "exited"
       THEN UNCHANGED <<taskRunningFlags, timestamps>>
       ELSE /\ IF code = 0
                 THEN \E readable \in BOOLEAN :
                        LET currentTimestamps == readTimestamps(timestamps, readable)
                            taskSpecificTimestamps ==
                              IF currentTimestamps[taskName].lastAttemptedStart # 0
                                THEN currentTimestamps[taskName]
                                ELSE [lastAttemptedStart |-> children[taskName].startedAt,
                                      lastCompletion |-> 0]
                        IN timestamps' =
                             [currentTimestamps EXCEPT ![taskName] =
                                [taskSpecificTimestamps EXCEPT !.lastCompletion = now]]
                 ELSE UNCHANGED timestamps
            /\ taskRunningFlags' = [taskRunningFlags EXCEPT ![taskName] = FALSE]
  /\ UNCHANGED <<runVars, fnVars, groupLevel, mainPc, now, nextTick>>

\* child.on("error"): a child of the task could not be spawned
ChildError(taskName) ==
  /\ children[taskName].spawnFailed > 0
  /\ children' = [children EXCEPT ![taskName].spawnFailed = @ - 1,
                                  ![taskName].startedAt = 0]
  /\ IF mainPc = "exited"
       THEN UNCHANGED taskRunningFlags
       ELSE taskRunningFlags' = [taskRunningFlags EXCEPT ![taskName] = FALSE]
  /\ UNCHANGED <<runVars, fnVars, groupLevel, mainPc, timestamps, now, nextTick>>

WazeChildError == ChildError(WAZE_TASK_NAME)
GridChildError == ChildError(GRID_TASK_NAME)

\* grid-runner.js: exit code 0 when updateGrids resolves, 1 when it rejects
GridChildExit ==
  /\ pc \in {"done", "rejected"}
  /\ ChildExit(GRID_TASK_NAME, IF pc = "done" THEN 0 ELSE 1)

\* waze-runner.js: exit code 0 when fetchWazeAlerts resolves, 1 when it rejects
WazeChildExit == \E code \in {0, 1} : ChildExit(WAZE_TASK_NAME, code)

\* what the Waze feed holds
WazeFeed == {AlertUniverse[1]}

\* INSERT OR IGNORE INTO alerts: a row whose uuid is stored is left alone
insertAlertStmt(table, alert) ==
  IF \E i \in DOMAIN table : table[i].uuid = alert.uuid
    THEN table
    ELSE Append(table, alert)

\* fetchWazeAlerts gets the alerts of an area and usePoliceData stores those
\* of type POLICE, here an area with one alert
usePoliceData ==
  /\ children[WAZE_TASK_NAME].running > 0
  /\ \E alert \in WazeFeed, type \in {"POLICE", "JAM"} :
       alerts' = IF type = "POLICE" THEN insertAlertStmt(alerts, alert) ELSE alerts
  /\ UNCHANGED <<tableVars, pc, referenceTimestamp, loopVars, faults, ghostVars, stale,
                 fnVars, schedVars, groupLevel>>

Tick ==
  /\ now < StartTime + MaxElapsed
  /\ now' = now + 1
  /\ UNCHANGED <<runVars, fnVars, groupLevel, mainPc, taskRunningFlags, timestamps, children, nextTick>>

\* a step of updateGrids in the grid child
GridChildRuns == children[GRID_TASK_NAME].running > 0

GridOpenDatabase == GridChildRuns /\ OpenDatabase
GridOpenDatabaseThrows == GridChildRuns /\ OpenDatabaseThrows
GridInitializeDatabase == GridChildRuns /\ initializeDatabase
GridDetermineReference == GridChildRuns /\ DetermineReference
GridDensityWindow == GridChildRuns /\ DensityWindow
GridDensityLevel == GridChildRuns /\ DensityLevel
GridDiversityQuery == GridChildRuns /\ DiversityQuery
GridDiversityLevelMax == GridChildRuns /\ DiversityLevelMax
GridDiversityRollUp == GridChildRuns /\ DiversityRollUp
GridUpdateMetadata == GridChildRuns /\ updateMetadata

NextScheduler ==
  \/ setup
  \/ WazeIntervalTick \/ GridIntervalTick
  \/ WazeChildExit \/ GridChildExit
  \/ WazeChildError \/ GridChildError
  \/ usePoliceData
  \/ Tick
  \/ GridOpenDatabase \/ GridOpenDatabaseThrows
  \/ GridInitializeDatabase
  \/ GridDetermineReference
  \/ GridDensityWindow \/ GridDensityLevel
  \/ GridDiversityQuery \/ GridDiversityLevelMax \/ GridDiversityRollUp
  \/ GridUpdateMetadata

\* the server starts on an empty store
SchedulerInit == Init /\ alerts = <<>>

SpecScheduler == SchedulerInit /\ [][NextScheduler]_vars

\* ------------------------------------------- the helpers applied to inputs
CoordInputs ==
  {Null, NaN, Str, PosInf, NegInf}
    \cup {Num(v) : v \in {-151209345, -33868819, -1000000, -2900, -15, -5, -1, 0,
                          1, 5, 15, 2900, 4500, 999999, 1000000, 33868819, 151209345}}

ValueInputs == {Null, NaN, Str} \cup {Num(v) : v \in -2 .. 5}
BoundInputs == -2 .. 5
ScaleInputs == {0, 1, 3, 255}

FnInit == Init /\ alerts = <<>>

CallScaleCoordinate ==
  /\ call.fn = "none"
  /\ \E coord \in CoordInputs, precision \in Levels :
       /\ call' = [fn |-> "scaleCoordinate", coord |-> coord, precision |-> precision]
       /\ result' = scaleCoordinate(coord, precision)
  /\ UNCHANGED <<runVars, schedVars, groupLevel>>

CallNormalize ==
  /\ call.fn = "none"
  /\ \E value \in ValueInputs, min \in BoundInputs, max \in BoundInputs, scale \in ScaleInputs :
       /\ call' = [fn |-> "normalize", value |-> value, min |-> min, max |-> max, scale |-> scale]
       /\ result' = Num(normalize(value, min, max, scale))
  /\ UNCHANGED <<runVars, schedVars, groupLevel>>

\* the scaled coordinates of the level-(L+1) cells handed to the roll-up
MaxChildCoordinate == 21
ChildInputs == -MaxChildCoordinate .. MaxChildCoordinate

\* parentLonScaled, parentLatScaled of one higherCell
CallParentCell ==
  /\ call.fn = "none"
  /\ \E lon \in ChildInputs, lat \in ChildInputs :
       /\ call' = [fn |-> "parentCell", lon_scaled |-> Num(lon), lat_scaled |-> Num(lat)]
       /\ result' = CellKey(JsTruncDiv10(Num(lon)), JsTruncDiv10(Num(lat)))
  /\ UNCHANGED <<runVars, schedVars, groupLevel>>

FnNext == CallScaleCoordinate \/ CallNormalize \/ CallParentCell

SpecFn == FnInit /\ [][FnNext]_vars

\* ----------------------------------------------------- claims on the helpers
Abs(n) == IF n < 0 THEN -n ELSE n

\* r is n / d truncated toward zero (d > 0), said without dividing
TruncatesTo(r, n, d) ==
  /\ Abs(r) * d <= Abs(n)
  /\ Abs(n) < (Abs(r) + 1) * d
  /\ (n >= 0 => r >= 0)
  /\ (n <= 0 => r <= 0)

ScaleCall == call.fn = "scaleCoordinate"
NormalizeCall == call.fn = "normalize"

\* C4 (as amended): for every finite coordinate c other than zero and every
\* level L in 0..5, scaleCoordinate(c, L) is the number c * 10^L, the
\* product of the two doubles, truncated toward zero.
C4_ScaleCoordinateTruncates ==
  (ScaleCall /\ IsFiniteNumber(call.coord) /\ call.coord.val # 0)
    => /\ IsFiniteNumber(result)
       /\ TruncatesTo(result.val, DoubleProduct(call.coord.val, call.precision),
                      MicroPerDegree \div 10 ^ call.precision)

\* C4 as stated: the same of every finite coordinate, zero included.
C4_ScaleCoordinateTruncatesEveryNumber ==
  (ScaleCall /\ IsFiniteNumber(call.coord))
    => /\ IsFiniteNumber(result)
       /\ TruncatesTo(result.val, DoubleProduct(call.coord.val, call.precision),
                      MicroPerDegree \div 10 ^ call.precision)

\* -33.868819 at level 2 is -3386, where flooring gives -3387
C4_Witness ==
  /\ ScaleCall
  /\ call.coord = Num(-33868819)
  /\ call.precision = 2
  /\ result = Num(-3386)

\* C5 as stated: scaleCoordinate returns null whenever the coordinate is not a
\* finite number (null, a string, NaN, +Infinity, -Infinity) or is zero.
C5_ScaleCoordinateNullUnlessFiniteNonZero ==
  (ScaleCall /\ (~IsFiniteNumber(call.coord) \/ call.coord.val = 0)) => result = Null

\* C6: for min < max and a value v with min <= v <= max, normalize(v, min,
\* max, scale) is an integer of 0..scale; it is 0 at v = min and scale at
\* v = max.
C6_NormalizeWithinScale ==
  (/\ NormalizeCall
   /\ call.min < call.max
   /\ IsFiniteNumber(call.value)
   /\ call.min <= call.value.val
   /\ call.value.val <= call.max)
    => /\ result.val \in 0 .. call.scale
       /\ (call.value.val = call.min => result.val = 0)
       /\ (call.value.val = call.max => result.val = call.scale)

\* a value half-way between the bounds, scale 3: 1.5 rounds to 2
C6_Witness ==
  /\ NormalizeCall
  /\ call.value = Num(1) /\ call.min = 0 /\ call.max = 2 /\ call.scale = 3
  /\ result = Num(2)

\* C7: when max = min, normalize returns scale if min > 0 and 0 otherwise,
\* whatever the value is, null and NaN included: the test of max = min comes
\* before the test of the value.
C7_NormalizeDegenerate ==
  (NormalizeCall /\ call.max = call.min)
    => result = Num(IF call.min > 0 THEN call.scale ELSE 0)

\* a null value between equal positive bounds gives the scale, not 0
C7_Witness ==
  /\ NormalizeCall
  /\ call.value = Null /\ call.min = 2 /\ call.max = 2 /\ call.scale = 255
  /\ result = Num(255)

\* ------------------------------------------------------ claims on the tables
GroupFinished(g) == g < radiusGroupId \/ pc \in {"metadata", "done"}

\* p is the coordinate of the parent of a cell of coordinate c
IsParentCoordinate(p, c) ==
  IF IsFiniteNumber(c) THEN IsFiniteNumber(p) /\ TruncatesTo(p.val, c.val, 10) ELSE p = c

RowsOfGroup(g) == {r \in temporal_diversity_grids : r.radius_group_id = g}

\* the rows among `rows` (those of one radius group) that are children of r
DiversityChildren(rows, r) ==
  {c \in rows :
     /\ c.level = r.level + 1
     /\ IsParentCoordinate(r.lon_scaled, c.lon_scaled)
     /\ IsParentCoordinate(r.lat_scaled, c.lat_scaled)}

\* C1: once the diversity pipeline has finished radius group g, every stored
\* row (g, L, x, y) with L < 5 has a stored row (g, L+1, x', y') with
\* trunc(x'/10) = x and trunc(y'/10) = y, and its score is the greatest score
\* of those rows.
C1_RollUpIsMaxOfStoredChildren ==
  \A g \in 0 .. Len(DIVERSITY_RADII) - 1 :
    GroupFinished(g) =>
      \* a difference with {} has TLC enumerate the filtered set once
      LET rows == RowsOfGroup(g) \ {}
      IN \A L \in PRECISION.MIN .. PRECISION.MAX - 1 :
           LET parents == {r \in rows : r.level = L} \ {}
               finer == {r \in rows : r.level = L + 1} \ {}
           IN \A r \in parents :
                LET below == DiversityChildren(finer, r) \ {}
                IN /\ \E c \in below : c.diversity_score = r.diversity_score
                   /\ \A c \in below : c.diversity_score <= r.diversity_score

\* a parent with two stored children of different scores
C1_Witness ==
  \E r \in temporal_diversity_grids :
    /\ r.level < PRECISION.MAX
    /\ GroupFinished(r.radius_group_id)
    /\ \E c1, c2 \in DiversityChildren(RowsOfGroup(r.radius_group_id), r) :
         c1.diversity_score < c2.diversity_score

\* the events the density SELECT of window w returns
SelectedForWindow(w) ==
  {i \in DOMAIN alerts :
     /\ alerts[i].pubMillis.kind = "number"
     /\ alerts[i].pubMillis.val >= referenceTimestamp - TIME_WINDOWS[w].daysAgoEnd * DAY_MS
     /\ alerts[i].pubMillis.val < referenceTimestamp - TIME_WINDOWS[w].daysAgoStart * DAY_MS
     /\ alerts[i].longitude # Null
     /\ alerts[i].latitude # Null}

Bucket(i, L) ==
  <<scaleCoordinate(alerts[i].longitude, L), scaleCoordinate(alerts[i].latitude, L)>>

Buckets(w, L) ==
  {Bucket(i, L) : i \in {j \in SelectedForWindow(w) :
                           Bucket(j, L)[1] # Null /\ Bucket(j, L)[2] # Null}}

BucketLogCount(w, L, b) ==
  Math_log1p(Cardinality({i \in SelectedForWindow(w) : Bucket(i, L) = b}))

NormalizedLogCount(w, L, b) ==
  LET logs == {BucketLogCount(w, L, c) : c \in Buckets(w, L)}
  IN normalize(Num(BucketLogCount(w, L, b)), SetMin(logs), SetMax(logs), 255)

\* the count of every bucket of the events selected for w, at level L
BucketCountMap(w, L) ==
  LET sel == SelectedForWindow(w)
  IN [b \in Buckets(w, L) |-> Cardinality({i \in sel : Bucket(i, L) = b})]

ExpectedDensityRows(w, L) ==
  LET counts == BucketCountMap(w, L)
      logs == {Math_log1p(counts[b]) : b \in DOMAIN counts}
      lo == SetMin(logs)
      hi == SetMax(logs)
      value == [b \in DOMAIN counts |-> normalize(Num(Math_log1p(counts[b])), lo, hi, 255)]
  IN { [time_window_id |-> TIME_WINDOWS[w].id, level |-> L,
        lon_scaled |-> b[1], lat_scaled |-> b[2], density |-> value[b]] :
       b \in {c \in DOMAIN counts : value[c] # 0} }

StoredDensityRows(w, L) ==
  {r \in density_grids : r.time_window_id = TIME_WINDOWS[w].id /\ r.level = L}

\* C2: after a run in which no batch write failed, for every time window w and
\* level L the stored density rows of (w, L) are exactly the buckets
\* (scale(lon, L), scale(lat, L)) of the events selected for w whose
\* normalized ln(1 + count) is not zero, each with that normalized value.
C2_DensityRowsAreNonZeroBuckets ==
  (pc = "done" /\ failedWrites = {})
    => \A w \in DOMAIN TIME_WINDOWS, L \in Levels :
         StoredDensityRows(w, L) = ExpectedDensityRows(w, L)

\* a window and level with two buckets of which one normalizes to zero
C2_Witness ==
  /\ pc = "done"
  /\ failedWrites = {}
  /\ \E w \in DOMAIN TIME_WINDOWS, L \in Levels :
       /\ Cardinality(Buckets(w, L)) = 2
       /\ Cardinality(StoredDensityRows(w, L)) = 1
       /\ StoredDensityRows(w, L) = ExpectedDensityRows(w, L)

\* C8: in every state every row of density_grids has a density in 1..255.
C8_DensityWithin1To255 ==
  \A r \in density_grids : r.density \in 1 .. 255

\* the level loop has passed a level at which a bucket normalized to zero:
\* the bucket has no row, the other bucket of that level has
C8_Witness ==
  /\ pc = "density_level"
  /\ level < PRECISION.MAX
  /\ \E b \in Buckets(windowIdx, level + 1) :
       /\ NormalizedLogCount(windowIdx, level + 1, b) = 0
       /\ ~\E r \in StoredDensityRows(windowIdx, level + 1) :
             r.lon_scaled = b[1] /\ r.lat_scaled = b[2]
  /\ StoredDensityRows(windowIdx, level + 1) # {}

\* C9: in every state every row of temporal_diversity_grids, at every level
\* and for every radius group, has a score in 1..4, the number of time
\* windows.
C9_DiversityScoreWithin1ToWindows ==
  \A r \in temporal_diversity_grids : r.diversity_score \in 1 .. Len(TIME_WINDOWS)

\* a score of 3 rolled up to the coarsest level
C9_Witness ==
  \E r \in temporal_diversity_grids : r.level = PRECISION.MIN /\ r.diversity_score = 3

AfterReference ==
  pc \in {"density_window", "density_level", "diversity_query", "diversity_level_max",
          "diversity_rollup", "metadata", "done"}

HasTimestamp == \E i \in DOMAIN alerts : alerts[i].pubMillis.kind = "number"

IsMaxTimestamp(t) ==
  /\ \E i \in DOMAIN alerts : alerts[i].pubMillis = Num(t)
  /\ \A i \in DOMAIN alerts : alerts[i].pubMillis.kind = "number" => alerts[i].pubMillis.val <= t

\* what the pipelines and the metadata writer of a run read is this value
OneReferenceUsed ==
  /\ pc = "density_level" =>
       validReports = processTimeWindowForDensity(alerts, TIME_WINDOWS[windowIdx], referenceTimestamp)
  /\ pc \in {"diversity_level_max", "diversity_rollup"} =>
       validAlertsForDiversity = SelectValidAlertsForDiversity(alerts, referenceTimestamp)
  /\ pc = "done" => metadata["last_grid_update_timestamp"] = referenceTimestamp

\* C10 (as amended): a run has one reference timestamp: the greatest timestamp
\* of the stored events when the query for it succeeds and some event has a
\* timestamp, and the wall-clock time otherwise (an empty store, no event with
\* a timestamp, or the query throwing); the density pipeline, the diversity
\* pipeline and the metadata writer all get that value.
C10_OneReferenceTimestamp ==
  AfterReference
    => /\ IF HasTimestamp /\ ~referenceQueryFailed
            THEN IsMaxTimestamp(referenceTimestamp)
            ELSE referenceTimestamp \in NowValues
       /\ OneReferenceUsed

\* C10 as stated: the wall-clock time only when the store is empty.
C10_WallClockOnlyWhenEmpty ==
  AfterReference
    => /\ IF alerts # <<>>
            THEN IsMaxTimestamp(referenceTimestamp)
            ELSE referenceTimestamp \in NowValues
       /\ OneReferenceUsed

\* a finished run over a store whose first row is not the newest
C10_Witness ==
  /\ pc = "done"
  /\ ~referenceQueryFailed
  /\ Len(alerts) >= 2
  /\ alerts[1].pubMillis.val < referenceTimestamp
  /\ IsMaxTimestamp(referenceTimestamp)
  /\ metadata["last_grid_update_timestamp"] = referenceTimestamp

SetupFailed == pc = "rejected" /\ referenceTimestamp = 0

\* the three tables as they were when the run started
TablesBeforeRun ==
  IF runs = 2
    THEN <<prev.density_grids, prev.temporal_diversity_grids, prev.metadata>>
    ELSE <<{}, {}, EmptyMap>>

\* C15 as stated: when opening the store or a statement of the setup step
\* fails, the run aborts and the density, diversity and metadata tables hold
\* exactly what they held before the run started.
C15_SetupFailureLeavesTables ==
  SetupFailed => <<density_grids, temporal_diversity_grids, metadata>> = TablesBeforeRun

\* the events some time window selects
QualifyingEvents == UNION {SelectedForWindow(w) : w \in DOMAIN TIME_WINDOWS}

\* C17: after a completed run the metadata table holds exactly the four pairs
\* the run wrote (the reference timestamp, the two centre coordinates, the
\* total count): no key or value of an earlier run remains.
C17_MetadataIsThisRuns ==
  pc = "done"
    => /\ DOMAIN metadata = MetadataKeys
       /\ metadata["last_grid_update_timestamp"] = referenceTimestamp
       /\ 2 * metadata["center_longitude"] = WAZE_AREA_LEFT + WAZE_AREA_RIGHT
       /\ 2 * metadata["center_latitude"] = WAZE_AREA_BOTTOM + WAZE_AREA_TOP
       /\ metadata["total_alerts_in_time_windows"] = Cardinality(QualifyingEvents)

\* a second run whose reference timestamp is not the one the first run wrote
C17_Witness ==
  /\ runs = 2
  /\ pc = "done"
  /\ "last_grid_update_timestamp" \in DOMAIN prev.metadata
  /\ prev.metadata["last_grid_update_timestamp"] # referenceTimestamp
  /\ metadata["last_grid_update_timestamp"] = referenceTimestamp

\* ------------------------------------------- claims on failures and counts
DensityWriteFailed(w, L) == <<"density", TIME_WINDOWS[w].id, L>> \in failedWrites

DensityPipelineOver == pc \in {"diversity_query", "done"}

\* C13: if the batch write of one density (window, level) fails, none of the
\* rows of that batch is stored, the run goes on with the remaining levels and
\* windows, and every other (window, level) holds exactly the rows of a run in
\* which no write failed.
C13_FailedDensityBatchIsSkipped ==
  (DensityPipelineOver /\ \E w \in DOMAIN TIME_WINDOWS, L \in Levels : DensityWriteFailed(w, L))
    => \A w \in DOMAIN TIME_WINDOWS, L \in Levels :
         StoredDensityRows(w, L) =
           IF DensityWriteFailed(w, L) THEN {} ELSE ExpectedDensityRows(w, L)

\* a completed run in which a batch failed, with rows stored for a coarser
\* level of the same window and for a later window
C13_Witness ==
  /\ pc = "done"
  /\ \E w \in DOMAIN TIME_WINDOWS, L \in Levels :
       /\ DensityWriteFailed(w, L)
       /\ ExpectedDensityRows(w, L) # {}
       /\ StoredDensityRows(w, L) = {}
       /\ \E L2 \in Levels : L2 < L /\ StoredDensityRows(w, L2) # {}
       /\ \E w2 \in DOMAIN TIME_WINDOWS : w2 > w /\ StoredDensityRows(w2, L) # {}

\* C14 as stated: once the store is open and the tables are rebuilt, no storage
\* failure of a later step makes updateGrids fail: only a failure of opening
\* the store or of the setup step reaches the caller.
C14_OnlySetupFailuresReachCaller ==
  pc = "rejected" => referenceTimestamp = 0

RECURSIVE SelectedInWindowsUpTo(_)
SelectedInWindowsUpTo(w) ==
  IF w = 0 THEN 0 ELSE Cardinality(SelectedForWindow(w)) + SelectedInWindowsUpTo(w - 1)

\* C16: the total written to metadata is the number of events with non-null
\* coordinates that some time window selects, which is the sum over the
\* windows of the events the density pipeline selects for each.
C16_TotalIsEventsOfAllWindows ==
  pc = "done"
    => /\ metadata["total_alerts_in_time_windows"] = Cardinality(QualifyingEvents)
       /\ metadata["total_alerts_in_time_windows"] = SelectedInWindowsUpTo(Len(TIME_WINDOWS))

\* events of two windows counted, the event whose timestamp is the reference
\* timestamp not counted
C16_Witness ==
  /\ pc = "done"
  /\ metadata["total_alerts_in_time_windows"] = 3
  /\ Len(alerts) = 4
  /\ \E w1, w2 \in DOMAIN TIME_WINDOWS :
       w1 # w2 /\ SelectedForWindow(w1) # {} /\ SelectedForWindow(w2) # {}
  /\ \E i \in DOMAIN alerts :
       alerts[i].pubMillis = Num(referenceTimestamp) /\ i \notin QualifyingEvents

HasRowAt(rows, b) == \E r \in rows : r.lon_scaled = b[1] /\ r.lat_scaled = b[2]

HasRowWithDensity(rows, b, d) ==
  \E r \in rows : r.lon_scaled = b[1] /\ r.lat_scaled = b[2] /\ r.density = d

BucketCounts(w, L) == {BucketCountMap(w, L)[b] : b \in Buckets(w, L)}

\* the cells of the greatest count of (w, L) are stored with 255, and a cell of
\* the least count is stored exactly when the least count is the greatest
MaxStoredMinDropped(w, L) ==
  LET count == BucketCountMap(w, L)
      counts == {count[b] : b \in DOMAIN count}
      least == SetMin(counts)
      greatest == SetMax(counts)
      rows == StoredDensityRows(w, L)
  IN \A b \in DOMAIN count :
       /\ count[b] = greatest => HasRowWithDensity(rows, b, 255)
       /\ count[b] = least => (HasRowAt(rows, b) <=> least = greatest)

AfterPhaseA == pc \in {"diversity_level_max", "diversity_rollup", "metadata", "done"}

InDensityRange(a, w) ==
  /\ a.pubMillis.kind = "number"
  /\ a.pubMillis.val >= referenceTimestamp - TIME_WINDOWS[w].daysAgoEnd * DAY_MS
  /\ a.pubMillis.val < referenceTimestamp - TIME_WINDOWS[w].daysAgoStart * DAY_MS

HasCoordinates(a) == a.longitude # Null /\ a.latitude # Null

DensityRangeOf(a) == CHOOSE w \in DOMAIN TIME_WINDOWS : InDensityRange(a, w)

NotBeforeReference(a) ==
  a.pubMillis.kind = "number" /\ a.pubMillis.val >= referenceTimestamp

WindowIdEntry(a, id) ==
  [longitude |-> a.longitude, latitude |-> a.latitude, timeWindowId |-> Num(id)]

\* C20 (as amended): Phase A keeps an event with non-null coordinates and
\* gives it window id w if and only if either its timestamp lies in the
\* half-open range of the density pipeline for w, or its timestamp is not
\* before the reference timestamp and w is the first window; every other
\* event is dropped.
C20_WindowIdIsDensityRangeBelowReference ==
  AfterPhaseA
    => LET kept == SelectSeq(alerts, LAMBDA a :
                     /\ HasCoordinates(a)
                     /\ \/ NotBeforeReference(a)
                        \/ \E w \in DOMAIN TIME_WINDOWS : InDensityRange(a, w))
       IN validAlertsForDiversity =
            [k \in DOMAIN kept |->
               WindowIdEntry(kept[k], IF NotBeforeReference(kept[k])
                                        THEN TIME_WINDOWS[1].id
                                        ELSE TIME_WINDOWS[DensityRangeOf(kept[k])].id)]

\* C20 as stated: window id w if and only if the timestamp lies in the
\* half-open range of the density pipeline for w; an event no density window
\* selects is dropped.
C20_WindowIdIsDensityRange ==
  AfterPhaseA
    => LET kept == SelectSeq(alerts, LAMBDA a :
                     /\ HasCoordinates(a)
                     /\ \E w \in DOMAIN TIME_WINDOWS : InDensityRange(a, w))
       IN validAlertsForDiversity =
            [k \in DOMAIN kept |->
               WindowIdEntry(kept[k], TIME_WINDOWS[DensityRangeOf(kept[k])].id)]

\* labels of two windows, the event whose timestamp is the reference timestamp
\* among them, an event on the lower boundary of the first window, and an
\* event older than every window dropped
C20_Witness ==
  /\ AfterPhaseA
  /\ {validAlertsForDiversity[k].timeWindowId : k \in DOMAIN validAlertsForDiversity}
       = {Num(0), Num(2)}
  /\ Len(validAlertsForDiversity) = Len(alerts) - 1
  /\ \E i \in DOMAIN alerts : NotBeforeReference(alerts[i])
  /\ \E i \in DOMAIN alerts :
       alerts[i].pubMillis = Num(referenceTimestamp - TIME_WINDOWS[1].daysAgoEnd * DAY_MS)
  /\ \E i \in DOMAIN alerts :
       /\ HasCoordinates(alerts[i])
       /\ ~NotBeforeReference(alerts[i])
       /\ \A w \in DOMAIN TIME_WINDOWS : ~InDensityRange(alerts[i], w)


\* ------------------------------------------------ claims on the scheduler
\* a grid child has been forked and its updateGrids has not settled
GridRunInProgress == GridChildRuns /\ pc \notin {"done", "rejected"}

\* C12 as stated: between the start and the end of a grid run the event store
\* does not change: no step taken while a grid run is in progress, of the run
\* or of a Waze fetch, inserts, updates or deletes an event.
C12_StoreUnchangedDuringGridRun ==
  [][GridRunInProgress => alerts' = alerts]_vars

\* C18: under the scheduler, whatever the order of the startup check, the
\* interval ticks and the 'exit' and 'error' events of the children, at most
\* one grid child is running at any time.
C18_AtMostOneGridRun ==
  children[GRID_TASK_NAME].running <= 1

\* the interval callback of the grid task has run while the child forked by
\* setup was still running and the main interval had passed, and no second
\* child was forked
C18_Witness ==
  /\ children[GRID_TASK_NAME].running = 1
  /\ taskRunningFlags[GRID_TASK_NAME]
  /\ timestamps[GRID_TASK_NAME].lastAttemptedStart = StartTime
  /\ now - StartTime >= GRID_UPDATE_INTERVAL_MS
  /\ nextTick[GRID_TASK_NAME] > StartTime + GRID_UPDATE_INTERVAL_MS
  /\ GridRunInProgress


\* ------------------------------------------- claims on the diversity scores
\* the events Phase A assigned a window whose max-precision cell is defined
AssignedEvents ==
  {i \in DOMAIN validAlertsForDiversity :
     /\ scaleCoordinate(validAlertsForDiversity[i].longitude, PRECISION.MAX) # Null
     /\ scaleCoordinate(validAlertsForDiversity[i].latitude, PRECISION.MAX) # Null}

MaxCellOf(i) ==
  CellKey(scaleCoordinate(validAlertsForDiversity[i].longitude, PRECISION.MAX),
          scaleCoordinate(validAlertsForDiversity[i].latitude, PRECISION.MAX))

IndexedCells == {MaxCellOf(i) : i \in AssignedEvents}

\* the smallest window id of the assigned events of a cell
CellLabel(cell) ==
  SetMin({validAlertsForDiversity[i].timeWindowId.val :
            i \in {j \in AssignedEvents : MaxCellOf(j) = cell}})

WithinOffsets(c, d, h) ==
  /\ Abs(KeyLon(c).val - KeyLon(d).val) <= h
  /\ Abs(KeyLat(c).val - KeyLat(d).val) <= h

DistinctLabelsNear(cell, h) ==
  Cardinality({CellLabel(d) : d \in {c \in IndexedCells : WithinOffsets(c, cell, h)}})

\* the level-MAX rows of radius group g by the distinct labels near each cell
ExpectedLevelMaxRows(g) ==
  {[radius_group_id |-> g, level |-> PRECISION.MAX,
    lon_scaled |-> KeyLon(cell), lat_scaled |-> KeyLat(cell),
    diversity_score |-> DistinctLabelsNear(cell, neighborhoodHalfWidthInCells(g))] :
   cell \in IndexedCells}

JustWroteLevelMax == pc = "diversity_rollup" /\ level = PRECISION.MAX - 1

\* the level-MAX write of radius group g has just gone through; no later step
\* writes a level-MAX row of g and none takes a row away
LevelMaxWritten(g) ==
  /\ g = radiusGroupId /\ JustWroteLevelMax
  /\ <<"diversity", g, PRECISION.MAX>> \notin failedWrites

\* the bijections of 1 .. n
Orders(n) == {f \in [1 .. n -> 1 .. n] : \A i, j \in 1 .. n : f[i] = f[j] => i = j}

\* the level-MAX rows of radius group g when the events are scanned in order f
LevelMaxRowsInOrder(g, f) ==
  LET scanned == [k \in DOMAIN validAlertsForDiversity |-> validAlertsForDiversity[f[k]]]
  IN levelMaxInserts(scanned, BuildCellMap(scanned, 1, EmptyMap), g)

\* C21: for every radius group whose level-5 write went through, the stored
\* level-5 rows are one row per max-precision cell holding an assigned event,
\* scored by the number of distinct labels of the indexed cells within the
\* half-width of the group, a label being the smallest window id of the cell;
\* every order of scanning the events gives these rows (the orders are gone
\* through for the two smallest radii); and with a half-width of 0 every cell
\* scores 1.
C21_LevelMaxScoreIsDistinctLabels ==
  /\ \A g \in 0 .. Len(DIVERSITY_RADII) - 1 :
       LevelMaxWritten(g) =>
         {r \in temporal_diversity_grids : r.radius_group_id = g /\ r.level = PRECISION.MAX}
           = ExpectedLevelMaxRows(g)
  /\ JustWroteLevelMax =>
       /\ radiusGroupId <= 1 =>
            \A f \in Orders(Len(validAlertsForDiversity)) :
              LevelMaxRowsInOrder(radiusGroupId, f) = ExpectedLevelMaxRows(radiusGroupId)
       /\ \A cell \in IndexedCells :
            /\ DistinctLabelsNear(cell, 0) = 1
            /\ diversityScoreForAnchor(KeyLon(cell), KeyLat(cell), 0,
                                       cellMostRecentTimeWindowIdMap) = 1

\* two events, in adjacent cells labelled 0 and 1, and both cells stored with
\* score 2 for the group of the smallest radius
C21_Witness ==
  /\ JustWroteLevelMax
  /\ radiusGroupId = 0
  /\ LevelMaxWritten(0)
  /\ Len(validAlertsForDiversity) = 2
  /\ \E c, d \in IndexedCells :
       /\ c # d
       /\ WithinOffsets(c, d, 1)
       /\ CellLabel(c) = 0 /\ CellLabel(d) = 1
       /\ \A cell \in {c, d} :
            [radius_group_id |-> 0, level |-> PRECISION.MAX,
             lon_scaled |-> KeyLon(cell), lat_scaled |-> KeyLat(cell),
             diversity_score |-> 2] \in temporal_diversity_grids


\* ------------------------------------------------ claims on the roll-up
StoredDiversityRows(g, L) ==
  {r \in temporal_diversity_grids : r.radius_group_id = g /\ r.level = L}

DiversityWriteFailed(g, L) == <<"diversity", g, L>> \in failedWrites

ParentCellOf(r) == CellKey(JsTruncDiv10(r.lon_scaled), JsTruncDiv10(r.lat_scaled))

\* one row per parent cell of the rows `finer`, with the greatest of their scores
RollUpOf(finer, g, L) ==
  {[radius_group_id |-> g, level |-> L,
    lon_scaled |-> KeyLon(p), lat_scaled |-> KeyLat(p),
    diversity_score |-> SetMax({c.diversity_score : c \in {d \in finer : ParentCellOf(d) = p}})] :
   p \in {ParentCellOf(c) : c \in finer}}

\* the whole batch of level L of radius group g
WholeBatch(g, L) ==
  IF L = PRECISION.MAX
    THEN ExpectedLevelMaxRows(g)
    ELSE RollUpOf(StoredDiversityRows(g, L + 1), g, L)

\* C22: when the roll-up loop of a radius group is about to build level L, no
\* row of the group is stored at level L or at a coarser level (the levels
\* come in the order 5, 4, ..., 0), and the rows of level L+1 it reads are
\* either the whole batch of that level or, its write having failed, none.
C22_LevelBuiltFromFinishedLevel ==
  pc = "diversity_rollup"
    => /\ \A M \in PRECISION.MIN .. level : StoredDiversityRows(radiusGroupId, M) = {}
       /\ StoredDiversityRows(radiusGroupId, level + 1) =
            IF DiversityWriteFailed(radiusGroupId, level + 1)
              THEN {}
              ELSE WholeBatch(radiusGroupId, level + 1)

\* level 3 about to be built from the two rows of level 4, themselves built
\* from three rows of level 5
C22_Witness ==
  /\ pc = "diversity_rollup"
  /\ level = PRECISION.MAX - 2
  /\ Cardinality(StoredDiversityRows(radiusGroupId, PRECISION.MAX)) = 3
  /\ Cardinality(StoredDiversityRows(radiusGroupId, PRECISION.MAX - 1)) = 2
  /\ StoredDiversityRows(radiusGroupId, PRECISION.MAX - 1)
       = WholeBatch(radiusGroupId, PRECISION.MAX - 1)
  /\ failedWrites # {}

\* ------------------------------------------- claims on the radius groups
\* the table after the steps from (g, L) on, the groups one after the other in
\* id order and each group from PRECISION.MAX down
RECURSIVE StepsInIdOrder(_, _, _, _, _)
StepsInIdOrder(table, validAlerts, map, g, L) ==
  IF g >= Len(DIVERSITY_RADII) THEN table
  ELSE LET after == StepWrites(table, validAlerts, map, g, L)
       IN IF L > PRECISION.MIN
            THEN StepsInIdOrder(after, validAlerts, map, g, L - 1)
            ELSE StepsInIdOrder(after, validAlerts, map, g + 1, PRECISION.MAX)

\* the rows of one radius group from the Phase A index and the radius alone
RECURSIVE RowsFromIndex(_, _)
RowsFromIndex(g, L) ==
  IF L = PRECISION.MAX THEN ExpectedLevelMaxRows(g)
  ELSE LET finer == RowsFromIndex(g, L + 1)
       IN RollUpOf({r \in finer : r.level = L + 1}, g, L) \cup finer

AllStepsTaken == \A g \in RadiusGroups : groupLevel[g] < PRECISION.MIN

\* C23: once every step of every radius group is taken, in whatever order
\* the steps of different groups came, the diversity table is the one that
\* taking the groups one after the other in id order gives, and the rows of
\* each group are those that follow from the Phase A index and its radius.
C23_InterleavingGivesSameTable ==
  AllStepsTaken =>
    /\ temporal_diversity_grids =
         StepsInIdOrder({}, validAlertsForDiversity, cellMostRecentTimeWindowIdMap,
                        0, PRECISION.MAX)
    /\ \A g \in RadiusGroups : RowsOfGroup(g) = RowsFromIndex(g, PRECISION.MIN)

\* a state in which the steps came out of id order: the last group is through
\* all its levels while the first has not taken its first step, and the last
\* group's scores are not those of the first
C23_Witness ==
  /\ pc = "diversity_level_max"
  /\ groupLevel[0] = PRECISION.MAX
  /\ groupLevel[Len(DIVERSITY_RADII) - 1] < PRECISION.MIN
  /\ \E r \in temporal_diversity_grids :
       /\ r.radius_group_id = Len(DIVERSITY_RADII) - 1
       /\ r.level = PRECISION.MAX
       /\ r.diversity_score = 2
       /\ diversityScoreForAnchor(r.lon_scaled, r.lat_scaled, neighborhoodHalfWidthInCells(0),
                                  cellMostRecentTimeWindowIdMap) = 1

\* --------------------------------------------- claims on the parent cells
ParentCall == call.fn = "parentCell"

\* every scaled coordinate that can have a parent among those of ChildInputs
ChildRange == -(MaxChildCoordinate + 10) .. MaxChildCoordinate + 10

\* the level-(L+1) coordinates the roll-up maps to the level-L coordinate p
ChildrenOf(p) == {c \in ChildRange : JsTruncDiv10(Num(c)) = Num(p)}

\* S is n consecutive integers
IsRun(S, n) == Cardinality(S) = n /\ SetMax(S) - SetMin(S) = n - 1

\* C24 as stated: the level-(L+1) cells the roll-up maps to a level-L cell
\* are ten consecutive values of x' by ten consecutive values of y', whatever
\* the cell.
C24_ChildrenAreTenByTen ==
  ParentCall =>
    /\ IsRun(ChildrenOf(KeyLon(result).val), 10)
    /\ IsRun(ChildrenOf(KeyLat(result).val), 10)

ChildrenAlongAxis(p) ==
  IF p > 0 THEN 10 * p .. 10 * p + 9
  ELSE IF p < 0 THEN 10 * p - 9 .. 10 * p
  ELSE -9 .. 9

\* C24: along each axis the level-(L+1) coordinates the roll-up maps to the
\* level-L coordinate p are the ten values 10p .. 10p+9 when p > 0, the ten
\* values 10p-9 .. 10p when p < 0 and the nineteen values -9 .. 9 when p = 0;
\* the children of a cell are a 10 by 10 block only when neither of its
\* coordinates is 0.
C24_ChildrenAreTenOrNineteen ==
  ParentCall =>
    /\ call.lon_scaled.val \in ChildrenOf(KeyLon(result).val)
    /\ call.lat_scaled.val \in ChildrenOf(KeyLat(result).val)
    /\ \A p \in {KeyLon(result).val, KeyLat(result).val} :
         /\ ChildrenOf(p) = ChildrenAlongAxis(p)
         /\ IsRun(ChildrenOf(p), IF p = 0 THEN 19 ELSE 10)

\* a cell below zero on one axis rolled up to 0, and to -1 on the other
C24_Witness ==
  /\ ParentCall
  /\ call.lon_scaled = Num(-5) /\ call.lat_scaled = Num(-15)
  /\ result = CellKey(Num(0), Num(-1))

\* --------------------------------------------- claims on the order of steps
\* the steps of updateGrids in the order of its statements
StepOf(p) ==
  CASE p = "idle" -> 0
    [] p = "opened" -> 1
    [] p = "reference" -> 2
    [] p \in {"density_window", "density_level"} -> 3
    [] p = "diversity_query" -> 4
    [] p \in {"diversity_level_max", "diversity_rollup"} -> 5
    [] p = "metadata" -> 6
    [] p = "done" -> 7
    [] p = "rejected" -> 8

InDensityPipeline == pc \in {"density_window", "density_level"}
InDiversityPipeline == pc \in {"diversity_query", "diversity_level_max", "diversity_rollup"}
DensityPipelineFinished == StepOf(pc) > 3 /\ windowIdx = Len(TIME_WINDOWS)

\* C25: a run never goes back to an earlier step; rows leave the tables only
\* in the rebuild, density rows are written only inside the density pipeline,
\* diversity rows only inside the diversity pipeline and after the density
\* pipeline has gone through its last window, and metadata only in the
\* metadata step, which comes after both.
C25_StepsInFixedOrder ==
  [][/\ StepOf(pc') >= StepOf(pc)
     /\ density_grids' # density_grids =>
          \/ pc = "opened" /\ density_grids' = {}
          \/ InDensityPipeline /\ density_grids \subseteq density_grids'
     /\ temporal_diversity_grids' # temporal_diversity_grids =>
          \/ pc = "opened" /\ temporal_diversity_grids' = {}
          \/ /\ InDiversityPipeline /\ DensityPipelineFinished
             /\ temporal_diversity_grids \subseteq temporal_diversity_grids'
     /\ metadata' # metadata => pc = "metadata"]_vars

\* a run that has written density rows, diversity rows and the metadata
C25_Witness ==
  /\ pc = "done"
  /\ faults = 0
  /\ Cardinality(density_grids) >= 2
  /\ Cardinality(temporal_diversity_grids) >= 2
  /\ DOMAIN metadata = MetadataKeys

\* ------------------------------------- claims on a failed diversity write
GroupWriteFailed(g) == \E M \in Levels : DiversityWriteFailed(g, M)

\* the roll-up loop is about to build a level whose finer level is empty
AtEmptyLevel ==
  pc = "diversity_rollup" /\ StoredDiversityRows(radiusGroupId, level + 1) = {}

\* C26: when the batch write of a level of radius group g has failed, g has
\* no row at that level nor at any coarser one; at the end of such a run
\* every radius group without a failed write has the rows of a run without
\* failures; the failed write does not end the run, and from a level whose
\* finer level is empty the loop goes on to the next level (or radius group)
\* writing nothing and failing nothing, unless the read-back itself throws.
C26_FailedLevelEmptiesCoarserLevels ==
  /\ [](/\ \A g \in RadiusGroups, M \in Levels :
             DiversityWriteFailed(g, M) =>
               \A K \in PRECISION.MIN .. M : StoredDiversityRows(g, K) = {}
        /\ (pc \in {"metadata", "done"} /\ \E g \in RadiusGroups : GroupWriteFailed(g)) =>
             \A h \in RadiusGroups :
               ~GroupWriteFailed(h) => RowsOfGroup(h) = RowsFromIndex(h, PRECISION.MIN))
  /\ [][/\ failedWrites' # failedWrites => pc' # "rejected"
        /\ (AtEmptyLevel /\ pc' # "rejected") =>
             /\ temporal_diversity_grids' = temporal_diversity_grids
             /\ failedWrites' = failedWrites
             /\ \/ level > PRECISION.MIN /\ level' = level - 1 /\ pc' = pc
                \/ level = PRECISION.MIN /\ pc' \in {"diversity_level_max", "metadata"}]_vars

\* the level-5 write of radius group 0 failed: the run is over with no row of
\* group 0 and rows of group 1 at every level
C26_Witness ==
  /\ pc = "done"
  /\ DiversityWriteFailed(0, PRECISION.MAX)
  /\ RowsOfGroup(0) = {}
  /\ \A L \in Levels : StoredDiversityRows(1, L) # {}

\* ------------------------------------ claims on the cells of the roll-up
\* Math.trunc(x / 10) applied n times
RECURSIVE RollUpFrom(_, _)
RollUpFrom(x, n) == IF n = 0 THEN x ELSE RollUpFrom(JsTruncDiv10(x), n - 1)

\* C27 as stated, for one coordinate: the max-precision coordinate of an
\* event rolled up to level L by repeated Math.trunc(x / 10), which is the
\* coordinate of its diversity cell at level L, is the coordinate
\* scaleCoordinate gives at level L.
C27_RollUpIsDirectScale ==
  (ScaleCall /\ IsFiniteNumber(call.coord) /\ call.coord.val # 0)
    => RollUpFrom(scaleCoordinate(call.coord, PRECISION.MAX),
                  PRECISION.MAX - call.precision) = result

\* ------------------------------------------ claims on scores and radii
\* the rows of radius group g at the level and cell of row r
RowsAtCellOf(r, g) ==
  {q \in temporal_diversity_grids :
     /\ q.radius_group_id = g /\ q.level = r.level
     /\ q.lon_scaled = r.lon_scaled /\ q.lat_scaled = r.lat_scaled}

\* between two radius groups, or after the last: a run adds rows and takes
\* none away, so a pair of rows is there from the step that wrote the later
\* of the two to the end of the run
BetweenRadiusGroups == pc \in {"diversity_level_max", "metadata", "done", "rejected"}

\* C28: for a stored row of a radius group and any radius group of at least
\* its half-width, the row of the wider group at the same level and cell has
\* at least its score; and once the wider group is through its levels without
\* a failed write, it has a row at that level and cell.
C28_ScoresMonotoneInRadius ==
  BetweenRadiusGroups =>
    \A r \in temporal_diversity_grids : \A g \in RadiusGroups :
      neighborhoodHalfWidthInCells(r.radius_group_id) <= neighborhoodHalfWidthInCells(g) =>
        LET wider == RowsAtCellOf(r, g) \ {}
        IN /\ \A q \in wider : r.diversity_score <= q.diversity_score
           /\ (GroupFinished(g) /\ ~GroupWriteFailed(g)) => wider # {}

\* a cell scoring 1 for the smallest radius and 2 for the largest, at the
\* coarsest level
C28_Witness ==
  /\ pc = "done"
  /\ \E r, q \in temporal_diversity_grids :
       /\ r.radius_group_id = 0 /\ q.radius_group_id = Len(DIVERSITY_RADII) - 1
       /\ r.level = PRECISION.MIN /\ q \in RowsAtCellOf(r, q.radius_group_id)
       /\ r.diversity_score = 1 /\ q.diversity_score = 2

\* ------------------------------------------------ claims on runTaskIfDue
\* the three conditions, from the flags, the timestamp file and the clock
Due(t) ==
  /\ ~taskRunningFlags[t]
  /\ now - timestamps[t].lastAttemptedStart >= IntervalOf(t)
  /\ \/ timestamps[t].lastCompletion = 0
     \/ now - timestamps[t].lastCompletion >= MINIMUM_POST_COMPLETION_INTERVAL_MS

\* the children fork has returned for task t, those that could not be spawned
\* and get an 'error' event included
ForkCalls(t) == children[t].running + children[t].spawnFailed

\* the step has forked a child for task t
Forked(t) == ForkCalls(t)' = ForkCalls(t) + 1

\* the step is, or holds, a call of runTaskIfDue for task t: the callback of
\* the timer of t, or setup, which calls it for the Waze task and then, unless
\* that call threw, for the grid task
Called(t) ==
  \/ nextTick'[t] # nextTick[t]
  \/ /\ mainPc = "setup" /\ mainPc' # "setup"
     /\ t = GRID_TASK_NAME => (mainPc' = "serving" \/ taskRunningFlags'[t])

\* C29 as stated: a call of runTaskIfDue for a task forks a child if and only
\* if the flag of the task is false, the interval has passed since
\* lastAttemptedStart and no completion is recorded or the minimum delay has
\* passed since lastCompletion; when it forks, the flag is set and the file
\* has lastAttemptedStart = now beside the old lastCompletion; when it does
\* not fork, the flag and the entry of the file are as they were.
C29_ForksIffDue ==
  [][\A t \in Tasks :
       Called(t) =>
         /\ Forked(t) <=> Due(t)
         /\ Forked(t) =>
              /\ taskRunningFlags'[t]
              /\ timestamps'[t] = [lastAttemptedStart |-> now,
                                   lastCompletion |-> timestamps[t].lastCompletion]
         /\ ~Forked(t) =>
              /\ taskRunningFlags'[t] = taskRunningFlags[t]
              /\ timestamps'[t] = timestamps[t]]_vars

\* ---------------------------------------------------------------------
\* C30: what the exit and error handlers of a child leave behind

OtherTask(t) == CHOOSE u \in Tasks : u # t

\* runTaskIfDue sets the flag of the task and writes its launch in this step
Launched(t) == ~taskRunningFlags[t] /\ taskRunningFlags'[t]

\* the exit handler of a child of the task runs in this step
ExitStep(t) == children'[t].running = children[t].running - 1

\* the error handler of a child of the task runs in this step
ErrorStep(t) == children'[t].spawnFailed = children[t].spawnFailed - 1

\* the exit code of the child that exits in this step may be 0: the Waze child
\* has either code, the grid child has code 0 exactly when updateGrids resolved
MayExitWithZero(t) == t = GRID_TASK_NAME => pc = "done"

\* the step records a completion of the task at the present time and leaves
\* the rest of the file alone
RecordsCompletion(t) ==
  /\ timestamps'[t] = [lastAttemptedStart |-> timestamps[t].lastAttemptedStart,
                       lastCompletion |-> now]
  /\ timestamps'[OtherTask(t)] = timestamps[OtherTask(t)]

\* lastCompletion of a task changes only in the exit handler of a child that
\* exited with code 0, which sets it to the present time; an exit with another
\* code leaves the file alone, and a resolved grid run is recorded
CompletionOnlyOnCodeZero(t) ==
  /\ ExitStep(t) /\ mainPc # "exited" =>
       IF MayExitWithZero(t)
         THEN \/ timestamps'[t].lastCompletion = now
              \/ t # GRID_TASK_NAME /\ timestamps' = timestamps
         ELSE timestamps' = timestamps
  /\ timestamps'[t].lastCompletion \notin {timestamps[t].lastCompletion, 0} =>
       ExitStep(t) /\ MayExitWithZero(t)

\* an error event leaves the file as the launch wrote it
ErrorKeepsFile(t) == ErrorStep(t) => timestamps' = timestamps

\* neither the write at launch nor the write at completion of a task loses
\* what the file holds: the launch keeps lastCompletion of the task, the
\* completion keeps its lastAttemptedStart, and both keep the entry of the
\* other task unless that task is launched in the same step
EntriesKept(t) ==
  /\ Launched(t) =>
       /\ timestamps'[t] = [lastAttemptedStart |-> now,
                            lastCompletion |-> timestamps[t].lastCompletion]
       /\ ~Launched(OtherTask(t)) =>
            timestamps'[OtherTask(t)] = timestamps[OtherTask(t)]
  /\ ExitStep(t) /\ timestamps' # timestamps => RecordsCompletion(t)

\* both handlers reset the flag of the task
FlagReset(t) ==
  (ExitStep(t) \/ ErrorStep(t)) /\ mainPc # "exited" => ~taskRunningFlags'[t]

\* C30 as stated: lastCompletion of a task is updated only when a child of it
\* exits with code 0; an exit with another code and an error event leave the
\* timestamp file as the launch wrote it; neither the write at launch nor the
\* write at completion loses an entry of the file; and both handlers reset
\* the running flag of the task.
C30_HandlersKeepTimestamps ==
  [][\A t \in Tasks :
       /\ CompletionOnlyOnCodeZero(t)
       /\ ErrorKeepsFile(t)
       /\ EntriesKept(t)
       /\ FlagReset(t)]_vars

====
